---- MODULE Spec2Model ----
(***************************************************************************)
(* A model of cpp-amalgamate: the recursive include-inlining engine of     *)
(* src/src/process.rs together with the path resolver (src/src/resolve.rs),*)
(* the inlining filter (src/src/filter.rs) and the command-line merging of *)
(* src/src/cli.rs.                                                         *)
(*                                                                         *)
(* Paths are records [dir, name]; a file system is a function from paths   *)
(* to entries (absent, regular file, directory, symbolic link).  A line of *)
(* a file is a record [kind, open, name, close]: what the two hard-coded   *)
(* regular expressions of process.rs can tell apart.  File contents are    *)
(* supplied by the environment line by line, as read_line returns them.    *)
(***************************************************************************)
EXTENDS Integers, Sequences, FiniteSets, TLC

(* ----------------------------- bounds ---------------------------------- *)

\* Total number of lines read from files in one run.
MaxReads == 2
\* Number of process() calls (root files) in one run.
MaxRoots == 2
\* Number of search-directory or filter options on the command lines that
\* the option merging, the filter and the resolver are called with.
MaxArgs == 3

(* ------------------------- program constants --------------------------- *)

\* usize::MAX in the source; the largest integer TLC represents stands for it.
EMPTY_STACK_IDX == 2147483647

VARIABLES
    fsys,                \* the file system the program runs against
    resolver,            \* IncludeResolver {quote_search_paths, system_search_paths}
    inlining_filter,     \* InliningFilter {quote_infos, system_infos}
    error_handling_opts, \* ErrorHandlingOpts
    expected_line,       \* Option<LineRef>: <<>> is None, <<r>> is Some(r)
    files,               \* Vec<FileState>, files[i + 1] is the source's files[i]
    known_files,         \* HashMap<PathBuf, usize>
    tail_idx,            \* index of the file being read, or EMPTY_STACK_IDX
    writer,              \* everything written to the output, in order
    log,                 \* warn! and debug! records of error_handling_handle!
    pc,                  \* "idle" | "running" | "failed" | "panic"
    roots,               \* Canonicalize of the source files given to process()
    error,               \* <<>> or <<e>>: the error process() returned
    opts,                \* the command line: the options given, in order
    call,                \* the last call of a function checked on its own
    last,                \* what the last step read, decided and wrote
    contents,            \* the lines of the files, where a run fixes them
    stack,               \* main.rs: Vec<FileState> of the including files
    current_file,        \* main.rs: FileState of the file being read
    next_line,           \* main.rs: (index in stack, 1-based line index)
    frames,              \* main.rs: the locals of the active process() calls
    exit_status          \* main.rs: <<>> or <<n>>, the status main ended with

vars == <<fsys, resolver, inlining_filter, error_handling_opts, expected_line,
          files, known_files, tail_idx, writer, log, pc, roots, error, opts, call,
          last, contents, stack, current_file, next_line, frames, exit_status>>

\* The state of the Processor of main.rs.
mainrs == <<stack, current_file, next_line, frames, exit_status>>

config == <<fsys, resolver, inlining_filter, error_handling_opts, opts, call,
            contents, mainrs>>

engine == <<expected_line, files, known_files, tail_idx, writer, log, pc, roots,
            error>>

(* ------------------------------ paths ---------------------------------- *)

P(d, n) == [dir |-> d, name |-> n]

\* Path::join of a directory and a relative reference.
Join(d, n) == P(d, n)

\* Path::parent of a file path.
Parent(p) == p.dir

NoPath == P("", "")

ErrorHandling == {"Error", "Warn", "Ignore"}

(* --------------------------- file system ------------------------------- *)

Absent == [kind |-> "none", to |-> NoPath]
RegularFile == [kind |-> "file", to |-> NoPath]
Directory == [kind |-> "dir", to |-> NoPath]
SymLink(p) == [kind |-> "link", to |-> p]

EntryAt(fs, p) == IF p \in DOMAIN fs THEN fs[p] ELSE Absent

\* Follow symbolic links from p, at most n of them: the path of the entry
\* finally named, or NoPath for a dangling link or a link loop.
RECURSIVE FollowLinks(_, _, _)
FollowLinks(fs, p, n) ==
    LET e == EntryAt(fs, p) IN
    IF e.kind = "none" THEN NoPath
    ELSE IF e.kind # "link" THEN p
    ELSE IF n = 0 THEN NoPath
    ELSE FollowLinks(fs, e.to, n - 1)

\* Path::canonicalize: <<>> on failure, <<q>> with q free of symbolic links.
Canonicalize(fs, p) ==
    LET q == FollowLinks(fs, p, Cardinality(DOMAIN fs)) IN
    IF q = NoPath THEN <<>> ELSE <<q>>

\* Path::exists and Path::is_dir both traverse symbolic links.
Exists(fs, p) == Canonicalize(fs, p) # <<>>

IsDir(fs, p) ==
    /\ Exists(fs, p)
    /\ EntryAt(fs, Canonicalize(fs, p)[1]).kind = "dir"

(* ----------------------------- resolve.rs ------------------------------ *)

\* A slip: a directory passes the test.
IsCandidate_any_entry(fs, potential_path) == Exists(fs, potential_path)

\* The test of the find_map closure.
IsCandidate(fs, potential_path) ==
    Exists(fs, potential_path) /\ ~IsDir(fs, potential_path)

\* The find_map of resolve: the first directory of dirs whose candidate
\* exists and is no directory, canonicalized.  <<>> when there is none,
\* <<c>> with c the result of canonicalize (itself <<>> on failure).
RECURSIVE FindCandidate(_, _, _)
FindCandidate(fs, path, dirs) ==
    IF dirs = <<>> THEN <<>>
    ELSE LET potential_path == Join(Head(dirs), path) IN
         IF IsCandidate(fs, potential_path)
         THEN <<Canonicalize(fs, potential_path)>>
         ELSE FindCandidate(fs, path, Tail(dirs))

\* resolve(path, search_path, current_dir): current_dir is <<>> (None) or
\* <<d>>.  Result [ok, val]: ok = FALSE is Err, val = <<>> is Ok(None),
\* val = <<p>> is Ok(Some(p)).
\* A slip: the search path is tried before the current directory.
resolve_search_path_first(fs, path, search_path, current_dir) ==
    LET found == FindCandidate(fs, path, search_path \o current_dir) IN
    IF found = <<>> THEN [ok |-> TRUE, val |-> <<>>]
    ELSE IF found[1] = <<>> THEN [ok |-> FALSE, val |-> <<>>]
    ELSE [ok |-> TRUE, val |-> found[1]]

resolve(fs, path, search_path, current_dir) ==
    LET found == FindCandidate(fs, path, current_dir \o search_path) IN
    IF found = <<>> THEN [ok |-> TRUE, val |-> <<>>]
    ELSE IF found[1] = <<>> THEN [ok |-> FALSE, val |-> <<>>]
    ELSE [ok |-> TRUE, val |-> found[1]]

resolve_quote(fs, r, path, current_dir) ==
    resolve(fs, path, r.quote_search_paths, <<current_dir>>)

\* A slip: a system include is searched like a quote include.
resolve_system_as_quote(fs, r, path) ==
    resolve(fs, path, r.quote_search_paths, <<>>)

resolve_system(fs, r, path) ==
    resolve(fs, path, r.system_search_paths, <<>>)

(* ------------------------------ filter.rs ------------------------------ *)

\* The globs of the model: "**" (every path), "**/n" (every file named n)
\* and "d/**" (every file of directory d).
GlobAll == [kind |-> "all", arg |-> ""]
GlobName(n) == [kind |-> "name", arg |-> n]
GlobDir(d) == [kind |-> "dir", arg |-> d]

InvertibleGlob(g, inv) == [glob |-> g, inverted |-> inv]

GlobMatches(g, path) ==
    \/ g.kind = "all"
    \/ g.kind = "name" /\ path.name = g.arg
    \/ g.kind = "dir" /\ path.dir = g.arg

\* GlobSet::matches_candidate_into: the positions of the matching globs,
\* in increasing order.
MatchesCandidateInto(infos, path) ==
    LET idx == [i \in 1..Len(infos) |-> i] IN
    SelectSeq(idx, LAMBDA i : GlobMatches(infos[i].glob, path))

\* A slip: the first matching glob decides.
check_should_inline_first(path, infos) ==
    LET indices == MatchesCandidateInto(infos, path) IN
    IF indices # <<>>
    THEN infos[indices[1]].inverted
    ELSE TRUE

check_should_inline(path, infos) ==
    LET indices == MatchesCandidateInto(infos, path) IN
    IF indices # <<>>
    THEN infos[indices[Len(indices)]].inverted
    ELSE TRUE

\* A slip: the filter of the other include kind is asked.
should_inline_crossed(f, path, is_system) ==
    check_should_inline(path, IF is_system THEN f.quote_infos ELSE f.system_infos)

should_inline(f, path, is_system) ==
    check_should_inline(path, IF is_system THEN f.system_infos ELSE f.quote_infos)

(* ------------------------------- lines --------------------------------- *)

TextLine == [kind |-> "text", open |-> "", name |-> "", close |-> ""]
PragmaOnceLine == [kind |-> "pragma", open |-> "", name |-> "", close |-> ""]
IncludeLine(o, n, c) == [kind |-> "include", open |-> o, name |-> n, close |-> c]
QuoteInclude(n) == IncludeLine("\"", n, "\"")
SystemInclude(n) == IncludeLine("<", n, ">")

\* A slip: no line is taken for a pragma-once line.
IsPragmaOnce_never(line) == FALSE

\* Regexes::pragma_once and Regexes::include.
IsPragmaOnce(line) == line.kind = "pragma"
IsIncludeMatch(line) == line.kind = "include"

(* ---------------------------- logging.rs ------------------------------- *)

LogRecord(level, what, cycle, ref) ==
    [level |-> level, what |-> what, cycle |-> cycle, ref |-> ref]

\* A slip: Ignore logs like Warn.
error_handling_handle_loud(handling, what, cycle, ref) ==
    IF handling = "Error" THEN [ok |-> FALSE, log |-> <<>>]
    ELSE [ok |-> TRUE, log |-> <<LogRecord("warn", what, cycle, ref)>>]

\* A slip: Ignore stops the run like Error, without a message.
error_handling_handle_abort(handling, what, cycle, ref) ==
    IF handling = "Warn"
    THEN [ok |-> TRUE, log |-> <<LogRecord("warn", what, cycle, ref)>>]
    ELSE [ok |-> FALSE, log |-> <<>>]

\* error_handling_handle!: [ok, log]; ok = FALSE is the Err of policy Error.
error_handling_handle(handling, what, cycle, ref) ==
    IF handling = "Error" THEN [ok |-> FALSE, log |-> <<>>]
    ELSE IF handling = "Warn"
    THEN [ok |-> TRUE, log |-> <<LogRecord("warn", what, cycle, ref)>>]
    ELSE [ok |-> TRUE, log |-> <<LogRecord("debug", what, cycle, ref)>>]

(* ----------------------------- process.rs ------------------------------ *)

FileState(path, by) ==
    [canonical_path |-> path, included_by |-> by, line_num |-> 0, in_stack |-> TRUE]

LineRef(idx, num) == [file_idx |-> idx, num |-> num]

FileAt(fl, idx) == fl[idx + 1]

\* A slip: the walk does not stop at the record idx but at the root.
RECURSIVE CycleWalk_to_root(_, _, _)
CycleWalk_to_root(fl, cycle_tail_idx, idx) ==
    LET next == FileAt(fl, cycle_tail_idx).included_by IN
    IF next = EMPTY_STACK_IDX THEN [panic |-> FALSE, cycle |-> <<>>]
    ELSE LET rest == CycleWalk_to_root(fl, next, idx) IN
         [panic |-> rest.panic,
          cycle |-> <<FileAt(fl, next).canonical_path>> \o rest.cycle]

\* The while loop of push_to_stack: the canonical paths pushed after the
\* tail's, up to the record idx.  panic stands for indexing files with the
\* sentinel (out of bounds).
RECURSIVE CycleWalk(_, _, _)
CycleWalk(fl, cycle_tail_idx, idx) ==
    IF cycle_tail_idx = idx THEN [panic |-> FALSE, cycle |-> <<>>]
    ELSE LET next == FileAt(fl, cycle_tail_idx).included_by IN
         IF next = EMPTY_STACK_IDX THEN [panic |-> TRUE, cycle |-> <<>>]
         ELSE LET rest == CycleWalk(fl, next, idx) IN
              [panic |-> rest.panic,
               cycle |-> <<FileAt(fl, next).canonical_path>> \o rest.cycle]

\* The result of push_to_stack: handling is "Inline", "Remove" or "Leave";
\* outcome is "ok", "err" (the Err of policy Error) or "panic" (assert_ne or
\* an index out of bounds); the rest is the state push_to_stack leaves.
Pushed(outcome, handling, fl, kf, tail, lg, cycle) ==
    [outcome |-> outcome, handling |-> handling, files |-> fl,
     known_files |-> kf, tail_idx |-> tail, log |-> lg, cycle |-> cycle]

\* A slip: the new record is not entered in known_files.
push_vacant_unrecorded(fl, kf, tail, canonical_path) ==
    Pushed("ok", "Inline", Append(fl, FileState(canonical_path, tail)),
           kf, Len(fl), <<>>, <<>>)

\* A slip: the new record does not name its includer.
push_vacant_detached(fl, kf, tail, canonical_path) ==
    LET idx == Len(fl) IN
    Pushed("ok", "Inline", Append(fl, FileState(canonical_path, EMPTY_STACK_IDX)),
           kf @@ (canonical_path :> idx), idx, <<>>, <<>>)

\* Entry::Vacant: a new record, which becomes the tail.
push_vacant(fl, kf, tail, canonical_path) ==
    LET idx == Len(fl) IN
    Pushed("ok", "Inline", Append(fl, FileState(canonical_path, tail)),
           kf @@ (canonical_path :> idx), idx, <<>>, <<>>)

\* A slip: a known file on the stack is entered again, as a new record.
push_in_stack_reenter(fl, kf, tail, cyclic_include, idx) ==
    Pushed("ok", "Inline",
           Append(fl, FileState(FileAt(fl, idx).canonical_path, tail)),
           kf, Len(fl), <<>>, <<>>)

\* A slip: the include of a file on the stack is removed, not left.
push_in_stack_remove(fl, kf, tail, cyclic_include, idx) ==
    LET h == error_handling_handle(cyclic_include, "cyclic", <<>>, TextLine) IN
    Pushed(IF h.ok THEN "ok" ELSE "err", "Remove", fl, kf, tail, h.log, <<>>)

\* A slip: the cycle is collected from the record idx down to the tail.
push_in_stack_downwards(fl, kf, tail, cyclic_include, idx) ==
    LET walk == CycleWalk(fl, tail, idx)
        up == <<FileAt(fl, tail).canonical_path>> \o walk.cycle
        cycle == [k \in 1..Len(up) |-> up[Len(up) + 1 - k]]
        h == error_handling_handle(cyclic_include, "cyclic", cycle, TextLine)
    IN Pushed(IF walk.panic THEN "panic" ELSE IF h.ok THEN "ok" ELSE "err",
              "Leave", fl, kf, tail, h.log, cycle)

\* Entry::Occupied with in_stack: the cycle is collected and handled.
push_in_stack(fl, kf, tail, cyclic_include, idx) ==
    IF tail = EMPTY_STACK_IDX
    THEN Pushed("panic", "Leave", fl, kf, tail, <<>>, <<>>)
    ELSE LET walk == CycleWalk(fl, tail, idx)
             cycle == <<FileAt(fl, tail).canonical_path>> \o walk.cycle
             h == error_handling_handle(cyclic_include, "cyclic", cycle, TextLine)
         IN Pushed(IF walk.panic THEN "panic" ELSE IF h.ok THEN "ok" ELSE "err",
                   "Leave", fl, kf, tail, h.log, cycle)

\* A slip: a file that is done is entered again, as a new record.
push_done_reenter(fl, kf, tail, idx) ==
    Pushed("ok", "Inline",
           Append(fl, FileState(FileAt(fl, idx).canonical_path, tail)),
           kf, Len(fl), <<>>, <<>>)

\* A slip: a file that is already included becomes the tail again.
push_done_as_tail(fl, kf, tail, idx) ==
    Pushed("ok", "Remove", fl, kf, idx, <<>>, <<>>)

\* Entry::Occupied without in_stack: already included.
push_done(fl, kf, tail, idx) ==
    Pushed("ok", "Remove", fl, kf, tail, <<>>, <<>>)

\* push_to_stack on the state (fl, kf, tail).
push_to_stack(fl, kf, tail, cyclic_include, canonical_path) ==
    IF canonical_path \notin DOMAIN kf
    THEN push_vacant(fl, kf, tail, canonical_path)
    ELSE LET idx == kf[canonical_path] IN
         IF FileAt(fl, idx).in_stack
         THEN push_in_stack(fl, kf, tail, cyclic_include, idx)
         ELSE push_done(fl, kf, tail, idx)

Directive(num, path) ==
    [tag |-> "directive", line |-> TextLine, num |-> num, path |-> path]

\* A copied line; num and path record where the line comes from.
Copied(line, num, path) ==
    [tag |-> "line", line |-> line, num |-> num, path |-> path]

\* A slip: the line reference is compared by its number only.
output_copied_line_by_number(fl, tail, el, w, line) ==
    LET cur_file == FileAt(fl, tail)
        cur_line == LineRef(tail, cur_file.line_num)
        copied == Copied(line, cur_file.line_num, cur_file.canonical_path)
    IN IF el # <<>>
       THEN IF cur_line.num # el[1].num
            THEN [writer |-> w \o <<Directive(cur_line.num, cur_file.canonical_path),
                                    copied>>,
                  expected_line |-> <<LineRef(tail, cur_line.num + 1)>>]
            ELSE [writer |-> Append(w, copied),
                  expected_line |-> <<LineRef(tail, cur_line.num + 1)>>]
       ELSE [writer |-> Append(w, copied), expected_line |-> el]

\* A slip: the line is written in front of the output.
output_copied_line_in_front(fl, tail, el, w, line) ==
    LET cur_file == FileAt(fl, tail)
    IN [writer |-> <<Copied(line, cur_file.line_num, cur_file.canonical_path)>> \o w,
        expected_line |-> el]

\* A slip: with line directives, every copied line gets its directive.
output_copied_line_always(fl, tail, el, w, line) ==
    LET cur_file == FileAt(fl, tail)
        copied == Copied(line, cur_file.line_num, cur_file.canonical_path)
    IN IF el # <<>>
       THEN [writer |-> w \o <<Directive(cur_file.line_num, cur_file.canonical_path),
                               copied>>,
             expected_line |-> <<LineRef(tail, cur_file.line_num + 1)>>]
       ELSE [writer |-> Append(w, copied), expected_line |-> el]

\* output_copied_line on the state (fl, tail, el, w): [writer, expected_line].
output_copied_line(fl, tail, el, w, line) ==
    LET cur_file == FileAt(fl, tail)
        cur_line == LineRef(tail, cur_file.line_num)
        copied == Copied(line, cur_file.line_num, cur_file.canonical_path)
    IN IF el # <<>>
       THEN IF cur_line # el[1]
            THEN [writer |-> w \o <<Directive(cur_line.num, cur_file.canonical_path),
                                    copied>>,
                  expected_line |-> <<LineRef(tail, cur_line.num + 1)>>]
            ELSE [writer |-> Append(w, copied),
                  expected_line |-> <<LineRef(el[1].file_idx, el[1].num + 1)>>]
       ELSE [writer |-> Append(w, copied), expected_line |-> el]

\* A slip: the policy of the other include kind is taken.
unresolvable_handling_swapped(eho, is_system) ==
    IF is_system
    THEN eho.unresolvable_quote_include
    ELSE eho.unresolvable_system_include

\* The policy process_include takes for an include that does not resolve.
unresolvable_handling(eho, is_system) ==
    IF is_system
    THEN eho.unresolvable_system_include
    ELSE eho.unresolvable_quote_include

\* process_include up to the call of process_recursively.  keep is the
\* returned bool; entered says that process_recursively is called.
\* What process_include returns and changes after push_to_stack returned p
\* for the approved include resolved to resolved_path.
IncludePushed(p, resolved_path) ==
    [outcome |-> p.outcome,
     keep |-> p.handling = "Leave",
     entered |-> p.handling = "Inline",
     files |-> p.files, known_files |-> p.known_files,
     tail_idx |-> p.tail_idx, log |-> p.log, cycle |-> p.cycle,
     what |-> "cyclic", resolved |-> <<resolved_path>>,
     approved |-> TRUE]

\* A slip: an Err of the resolver is taken for an include that does not
\* resolve, and handled under the policy of the include's kind.
IncludeResolved_lenient(fl, kf, tail, line, is_system, maybe_resolved_path) ==
    LET same == [outcome |-> "ok", keep |-> TRUE, entered |-> FALSE,
                 files |-> fl, known_files |-> kf, tail_idx |-> tail,
                 log |-> <<>>, cycle |-> <<>>, what |-> "",
                 resolved |-> <<>>, approved |-> FALSE]
    IN
    IF maybe_resolved_path.val # <<>>
    THEN LET resolved_path == maybe_resolved_path.val[1] IN
         IF should_inline(inlining_filter, resolved_path, is_system)
         THEN IncludePushed(push_to_stack(fl, kf, tail,
                                error_handling_opts.cyclic_include, resolved_path),
                            resolved_path)
         ELSE [same EXCEPT !.resolved = maybe_resolved_path.val]
    ELSE LET handling == unresolvable_handling(error_handling_opts, is_system)
             h == error_handling_handle(handling, "unresolved", <<>>, line)
         IN [same EXCEPT !.outcome = IF h.ok THEN "ok" ELSE "err",
                         !.log = h.log, !.what = "unresolved"]

\* A slip: the known files are looked up before the filter is asked, so an
\* include of a known file goes through push_to_stack whatever the filter.
IncludeResolved_lookup_first(fl, kf, tail, line, is_system, maybe_resolved_path) ==
    LET same == [outcome |-> "ok", keep |-> TRUE, entered |-> FALSE,
                 files |-> fl, known_files |-> kf, tail_idx |-> tail,
                 log |-> <<>>, cycle |-> <<>>, what |-> "",
                 resolved |-> <<>>, approved |-> FALSE]
    IN
    IF ~maybe_resolved_path.ok
    THEN [same EXCEPT !.outcome = "err", !.what = "canonicalize"]
    ELSE IF maybe_resolved_path.val # <<>>
    THEN LET resolved_path == maybe_resolved_path.val[1] IN
         IF \/ resolved_path \in DOMAIN kf
            \/ should_inline(inlining_filter, resolved_path, is_system)
         THEN [IncludePushed(push_to_stack(fl, kf, tail,
                                error_handling_opts.cyclic_include, resolved_path),
                             resolved_path)
                 EXCEPT !.approved =
                           should_inline(inlining_filter, resolved_path, is_system)]
         ELSE [same EXCEPT !.resolved = maybe_resolved_path.val]
    ELSE LET handling == unresolvable_handling(error_handling_opts, is_system)
             h == error_handling_handle(handling, "unresolved", <<>>, line)
         IN [same EXCEPT !.outcome = IF h.ok THEN "ok" ELSE "err",
                         !.log = h.log, !.what = "unresolved"]

\* process_include from the result of the resolver on.
IncludeResolved(fl, kf, tail, line, is_system, maybe_resolved_path) ==
    LET same == [outcome |-> "ok", keep |-> TRUE, entered |-> FALSE,
                 files |-> fl, known_files |-> kf, tail_idx |-> tail,
                 log |-> <<>>, cycle |-> <<>>, what |-> "",
                 resolved |-> <<>>, approved |-> FALSE]
    IN
    IF ~maybe_resolved_path.ok
    THEN [same EXCEPT !.outcome = "err", !.what = "canonicalize"]
    ELSE IF maybe_resolved_path.val # <<>>
    THEN LET resolved_path == maybe_resolved_path.val[1] IN
         IF should_inline(inlining_filter, resolved_path, is_system)
         THEN IncludePushed(push_to_stack(fl, kf, tail,
                                error_handling_opts.cyclic_include, resolved_path),
                            resolved_path)
         ELSE [same EXCEPT !.resolved = maybe_resolved_path.val]
    ELSE LET handling == unresolvable_handling(error_handling_opts, is_system)
             h == error_handling_handle(handling, "unresolved", <<>>, line)
         IN [same EXCEPT !.outcome = IF h.ok THEN "ok" ELSE "err",
                         !.log = h.log, !.what = "unresolved"]

\* A slip: the form of a reference is told by its opening delimiter alone.
process_include_by_opening(fl, kf, tail, line, current_dir) ==
    IncludeResolved(fl, kf, tail, line, line.open = "<",
        IF line.open = "\""
        THEN resolve_quote(fsys, resolver, line.name, current_dir)
        ELSE resolve_system(fsys, resolver, line.name))

process_include(fl, kf, tail, line, current_dir) ==
    LET is_quote == line.open = "\"" /\ line.close = "\""
        is_system == line.open = "<" /\ line.close = ">"
    IN
    IF ~is_quote /\ ~is_system
    THEN [outcome |-> "ok", keep |-> TRUE, entered |-> FALSE,
          files |-> fl, known_files |-> kf, tail_idx |-> tail,
          log |-> <<>>, cycle |-> <<>>, what |-> "",
          resolved |-> <<>>, approved |-> FALSE]
    ELSE IncludeResolved(fl, kf, tail, line, is_system,
            IF is_quote
            THEN resolve_quote(fsys, resolver, line.name, current_dir)
            ELSE resolve_system(fsys, resolver, line.name))

ErrorValue(what, cycle) == [what |-> what, cycle |-> cycle]

TotalReads == LET RECURSIVE Sum(_)
                  Sum(i) == IF i = 0 THEN 0 ELSE files[i].line_num + Sum(i - 1)
              IN Sum(Len(files))

(* ------------------------------- cli.rs -------------------------------- *)

Arg(name, value) == [name |-> name, value |-> value]

\* The Vec field of Opts filled from the occurrences of one option.
OptValues(o, name) ==
    LET occ == SelectSeq(o, LAMBDA a : a.name = name) IN
    [i \in 1..Len(occ) |-> occ[i].value]

\* ArgMatches::indices_of: the command-line positions of one option's values.
indices_of(o, name) ==
    SelectSeq([i \in 1..Len(o) |-> i], LAMBDA i : o[i].name = name)

Min(a, b) == IF a < b THEN a ELSE b

\* with_indices: indices_of zipped with the values.
with_indices(o, name, values) ==
    LET ind == indices_of(o, name) IN
    [i \in 1..Min(Len(ind), Len(values)) |-> <<ind[i], values[i]>>]

\* Itertools::merge_by with the closure |x, y| x.0 < y.0.
RECURSIVE merge_by(_, _)
merge_by(xs, ys) ==
    IF xs = <<>> THEN ys
    ELSE IF ys = <<>> THEN xs
    ELSE IF Head(xs)[1] < Head(ys)[1]
    THEN <<Head(xs)>> \o merge_by(Tail(xs), ys)
    ELSE <<Head(ys)>> \o merge_by(xs, Tail(ys))

\* A slip: the two lists are chained, not merged.
merge_by_cli_order_chained(o, list1, name1, list2, name2) ==
    LET merged == with_indices(o, name1, list1) \o with_indices(o, name2, list2)
    IN [i \in 1..Len(merged) |-> merged[i][2]]

merge_by_cli_order(o, list1, name1, list2, name2) ==
    LET merged == merge_by(with_indices(o, name1, list1),
                           with_indices(o, name2, list2))
    IN [i \in 1..Len(merged) |-> merged[i][2]]

quote_search_dirs(o) ==
    merge_by_cli_order(o, OptValues(o, "dir"), "dir",
                       OptValues(o, "dir-quote"), "dir-quote")

system_search_dirs(o) ==
    merge_by_cli_order(o, OptValues(o, "dir"), "dir",
                       OptValues(o, "dir-system"), "dir-system")

quote_filter_globs(o) ==
    merge_by_cli_order(o, OptValues(o, "filter"), "filter",
                       OptValues(o, "filter-quote"), "filter-quote")

system_filter_globs(o) ==
    merge_by_cli_order(o, OptValues(o, "filter"), "filter",
                       OptValues(o, "filter-system"), "filter-system")

\* Option<ErrorHandling> of one policy option: <<>> when it is not given.
\* clap keeps the last occurrence's value.
OptValue(o, name) ==
    LET vals == OptValues(o, name) IN
    IF vals = <<>> THEN <<>> ELSE <<vals[Len(vals)]>>

cyclic_include_handling(o) ==
    LET cyclic_include == OptValue(o, "cyclic-include") IN
    IF cyclic_include = <<>> THEN "Error" ELSE cyclic_include[1]

\* A slip: the policy of quote includes reads the option of system includes.
unresolvable_quote_include_handling_crossed(o) ==
    LET unresolvable_include == OptValue(o, "unresolvable-include")
        other == OptValue(o, "unresolvable-system-include")
    IN IF unresolvable_include # <<>> THEN unresolvable_include[1]
       ELSE IF other # <<>> THEN other[1]
       ELSE "Ignore"

unresolvable_quote_include_handling(o) ==
    LET unresolvable_include == OptValue(o, "unresolvable-include")
        unresolvable_quote_include == OptValue(o, "unresolvable-quote-include")
    IN IF unresolvable_include # <<>> THEN unresolvable_include[1]
       ELSE IF unresolvable_quote_include # <<>> THEN unresolvable_quote_include[1]
       ELSE "Ignore"

unresolvable_system_include_handling(o) ==
    LET unresolvable_include == OptValue(o, "unresolvable-include")
        unresolvable_system_include == OptValue(o, "unresolvable-system-include")
    IN IF unresolvable_include # <<>> THEN unresolvable_include[1]
       ELSE IF unresolvable_system_include # <<>> THEN unresolvable_system_include[1]
       ELSE "Ignore"

\* The ErrorHandlingOpts a command line configures.
ErrorHandlingOptsOf(o) ==
    [cyclic_include |-> cyclic_include_handling(o),
     unresolvable_quote_include |-> unresolvable_quote_include_handling(o),
     unresolvable_system_include |-> unresolvable_system_include_handling(o)]

\* No policy option is given: each policy has its default.
DefaultErrorHandlingOpts ==
    [cyclic_include |-> "Error",
     unresolvable_quote_include |-> "Ignore",
     unresolvable_system_include |-> "Ignore"]

\* IncludeResolver::new; the directories of the model are canonical.
IncludeResolverNew(quote_search_dirs_, system_search_dirs_) ==
    [quote_search_paths |-> quote_search_dirs_,
     system_search_paths |-> system_search_dirs_]

\* InliningFilter::new.
InliningFilterNew(quote_globs, system_globs) ==
    [quote_infos |-> quote_globs, system_infos |-> system_globs]

(* ------------------------------ inputs --------------------------------- *)

\* Sequences over S of length at most n.
SeqsUpTo(S, n) == UNION {[1..k -> S] : k \in 0..n}

\* The file system of the engine runs: a source directory with the file r,
\* and a search directory inc with the headers a and b, a symbolic link r
\* to the source file and a subdirectory d.
EngineFs ==
    (P("src", "r") :> RegularFile) @@
    (P("inc", "a") :> RegularFile) @@
    (P("inc", "b") :> RegularFile) @@
    (P("inc", "r") :> SymLink(P("src", "r"))) @@
    (P("inc", "d") :> Directory)

\* -d inc -f '**/b' --filter-system '!**/b'
EngineOpts ==
    <<Arg("dir", "inc"),
      Arg("filter", InvertibleGlob(GlobName("b"), FALSE)),
      Arg("filter-system", InvertibleGlob(GlobName("b"), TRUE))>>

\* The lines a file of an engine run may hold.
Lines ==
    {TextLine, PragmaOnceLine,
     SystemInclude("r"), SystemInclude("a"), SystemInclude("b"),
     QuoteInclude("b"), QuoteInclude("d"), SystemInclude("d"),
     IncludeLine("\"", "a", ">")}

\* The source files process() may be given; src/x does not exist.
RootPaths == {P("src", "r"), P("inc", "r"), P("inc", "a"), P("src", "x")}

NoCall == [fn |-> "", args |-> <<>>, ret |-> <<>>]

\* NotSeen, InStack or Done: the state of an identity in (fl, kf).
StateOf(fl, kf, path) ==
    IF path \notin DOMAIN kf THEN "NotSeen"
    ELSE IF FileAt(fl, kf[path]).in_stack THEN "InStack"
    ELSE "Done"

\* The record of a step: the line read, what the include resolved to and
\* whether the filter approved it, the state of that identity and the sizes
\* of files, writer and log before the step, the tail before the step and
\* the number of lines read from the tail file before the step.
Step(op, line, resolved, approved, before, nfiles, tail) ==
    [op |-> op, line |-> line, resolved |-> resolved, approved |-> approved,
     before |-> before, nfiles |-> nfiles, tail |-> tail,
     nwriter |-> Len(writer), nlog |-> Len(log),
     nread |-> IF tail = EMPTY_STACK_IDX THEN 0 ELSE FileAt(files, tail).line_num]

(* ------------------------------ actions -------------------------------- *)

\* The Processor of main.rs is not in use, and no file content is fixed.
NoMainRs ==
    /\ contents = <<>>
    /\ stack = <<>>
    /\ current_file = <<>>
    /\ next_line = <<0, 1>>
    /\ frames = <<>>
    /\ exit_status = <<>>

\* The state of Processor::new.
InitEngine ==
    /\ NoMainRs
    /\ files = <<>>
    /\ known_files = <<>>
    /\ tail_idx = EMPTY_STACK_IDX
    /\ writer = <<>>
    /\ log = <<>>
    /\ pc = "idle"
    /\ roots = <<>>
    /\ error = <<>>
    /\ last = Step("init", TextLine, <<>>, FALSE, "", 0, EMPTY_STACK_IDX)

\* Processor::new, before the first process() call.
Init ==
    /\ fsys = EngineFs
    /\ opts \in {EngineOpts} \cup
                {Append(EngineOpts, Arg("cyclic-include", h)) : h \in ErrorHandling}
    /\ call = NoCall
    /\ resolver = IncludeResolverNew(quote_search_dirs(opts),
                                     system_search_dirs(opts))
    /\ inlining_filter = InliningFilterNew(quote_filter_globs(opts),
                                           system_filter_globs(opts))
    /\ error_handling_opts \in [cyclic_include : {cyclic_include_handling(opts)},
                                unresolvable_quote_include : ErrorHandling,
                                unresolvable_system_include : ErrorHandling]
    /\ \E line_directives \in BOOLEAN :
          expected_line = IF line_directives
                          THEN <<LineRef(EMPTY_STACK_IDX, 0)>>
                          ELSE <<>>
    /\ InitEngine

\* process(source_file) up to the call of File::open on the root file (or
\* to its return, when the root is not entered).
Process(source_file) ==
    /\ pc = "idle"
    /\ Len(roots) < MaxRoots
    /\ LET canonical_path == Canonicalize(fsys, source_file) IN
       /\ roots' = Append(roots, canonical_path)
       /\ IF canonical_path = <<>>
          THEN /\ pc' = "failed"
               /\ error' = <<ErrorValue("canonicalize", <<>>)>>
               /\ UNCHANGED <<files, known_files, tail_idx, log>>
          ELSE IF tail_idx # EMPTY_STACK_IDX
          THEN /\ pc' = "panic"
               /\ UNCHANGED <<files, known_files, tail_idx, log, error>>
          ELSE \E p \in {push_to_stack(files, known_files, tail_idx,
                            error_handling_opts.cyclic_include, canonical_path[1])} :
                  /\ files' = p.files
                  /\ known_files' = p.known_files
                  /\ tail_idx' = p.tail_idx
                  /\ log' = log \o p.log
                  /\ pc' = IF p.outcome = "panic" THEN "panic"
                           ELSE IF p.outcome = "err" THEN "failed"
                           ELSE IF p.handling = "Inline" THEN "running"
                           ELSE "idle"
                  /\ error' = IF p.outcome = "err"
                              THEN <<ErrorValue("cyclic", p.cycle)>>
                              ELSE error
       /\ last' = Step("process", TextLine, canonical_path, TRUE,
                       IF canonical_path = <<>> THEN ""
                       ELSE StateOf(files, known_files, canonical_path[1]),
                       Len(files), tail_idx)
    /\ UNCHANGED <<config, expected_line, writer>>

\* A slip: the include line is copied although process_include failed.
IncludeStep_copying(line, fl, r) ==
    /\ files' = r.files
    /\ known_files' = r.known_files
    /\ tail_idx' = r.tail_idx
    /\ log' = log \o r.log
    /\ pc' = IF r.outcome = "panic" THEN "panic"
             ELSE IF r.outcome = "err" THEN "failed"
             ELSE pc
    /\ error' = IF r.outcome = "err"
                THEN <<ErrorValue(r.what, r.cycle)>>
                ELSE error
    /\ IF r.outcome = "err" \/ r.keep
       THEN LET o == output_copied_line(fl, tail_idx, expected_line,
                                        writer, line)
            IN /\ writer' = o.writer
               /\ expected_line' = o.expected_line
       ELSE UNCHANGED <<writer, expected_line>>

\* process_line after process_include returned r for the include line
\* read, fl being the files with the line counted: the Processor takes
\* what process_include changed; the line is copied when r says keep, and
\* an Err ends process().
IncludeStep(line, fl, r) ==
    /\ files' = r.files
    /\ known_files' = r.known_files
    /\ tail_idx' = r.tail_idx
    /\ log' = log \o r.log
    /\ pc' = IF r.outcome = "panic" THEN "panic"
             ELSE IF r.outcome = "err" THEN "failed"
             ELSE pc
    /\ error' = IF r.outcome = "err"
                THEN <<ErrorValue(r.what, r.cycle)>>
                ELSE error
    /\ IF r.outcome = "ok" /\ r.keep
       THEN LET o == output_copied_line(fl, tail_idx, expected_line,
                                        writer, line)
            IN /\ writer' = o.writer
               /\ expected_line' = o.expected_line
       ELSE UNCHANGED <<writer, expected_line>>

\* One iteration of the loop of process_recursively in which read_line
\* returns a line: process_line, up to the read of the next line of the
\* same file or, after an inlined include, to the call of File::open on
\* the file entered.
ProcessLine(line) ==
    /\ pc = "running"
    /\ LET fl == [files EXCEPT ![tail_idx + 1].line_num = @ + 1]
           current_dir == Parent(FileAt(fl, tail_idx).canonical_path)
       IN
       IF IsPragmaOnce(line)
       THEN /\ files' = fl
            /\ last' = Step("line", line, <<>>, FALSE, "", Len(files), tail_idx)
            /\ UNCHANGED <<known_files, tail_idx, expected_line, writer, log,
                           pc, error>>
       ELSE IF IsIncludeMatch(line)
       THEN \E r \in {process_include(fl, known_files, tail_idx, line, current_dir)} :
               /\ IncludeStep(line, fl, r)
               /\ last' = Step("line", line, r.resolved, r.approved,
                               IF r.resolved = <<>> THEN ""
                               ELSE StateOf(files, known_files, r.resolved[1]),
                               Len(files), tail_idx)
       ELSE LET o == output_copied_line(fl, tail_idx, expected_line, writer, line)
            IN /\ files' = fl
               /\ writer' = o.writer
               /\ expected_line' = o.expected_line
               /\ last' = Step("line", line, <<>>, FALSE, "", Len(files), tail_idx)
               /\ UNCHANGED <<known_files, tail_idx, log, pc, error>>
    /\ UNCHANGED <<config, roots>>

\* File::open fails on the file just pushed (none of its lines is read yet).
OpenError ==
    /\ pc = "running"
    /\ FileAt(files, tail_idx).line_num = 0
    /\ pc' = "failed"
    /\ error' = <<ErrorValue("open", <<>>)>>
    /\ last' = Step("open_error", TextLine, <<>>, FALSE, "", Len(files), tail_idx)
    /\ UNCHANGED <<config, expected_line, files, known_files, tail_idx, writer,
                   log, roots>>

\* The iteration in which read_line fails.
ReadError ==
    /\ pc = "running"
    /\ pc' = "failed"
    /\ error' = <<ErrorValue("read", <<>>)>>
    /\ last' = Step("read_error", TextLine, <<>>, FALSE, "", Len(files), tail_idx)
    /\ UNCHANGED <<config, expected_line, files, known_files, tail_idx, writer,
                   log, roots>>

\* A slip: the end of a file leaves its record on the include stack.
EndOfFile_in_stack ==
    /\ pc = "running"
    /\ files' = files
    /\ tail_idx' = FileAt(files, tail_idx).included_by
    /\ pc' = IF tail_idx' = EMPTY_STACK_IDX THEN "idle" ELSE "running"
    /\ last' = Step("eof", TextLine, <<>>, FALSE, "", Len(files), tail_idx)
    /\ UNCHANGED <<config, known_files, expected_line, writer, log, roots, error>>

\* A slip: the end of a nested file gives the turn to the first record.
EndOfFile_to_first ==
    /\ pc = "running"
    /\ files' = [files EXCEPT ![tail_idx + 1].in_stack = FALSE]
    /\ tail_idx' = IF FileAt(files, tail_idx).included_by = EMPTY_STACK_IDX
                   THEN EMPTY_STACK_IDX ELSE 0
    /\ pc' = IF tail_idx' = EMPTY_STACK_IDX THEN "idle" ELSE "running"
    /\ last' = Step("eof", TextLine, <<>>, FALSE, "", Len(files), tail_idx)
    /\ UNCHANGED <<config, known_files, expected_line, writer, log, roots, error>>

\* A slip: the end of a nested file also takes its includer off the chain
\* from the tail, and leaves the includer's record in_stack.
EndOfFile_two_levels ==
    /\ pc = "running"
    /\ files' = [files EXCEPT ![tail_idx + 1].in_stack = FALSE]
    /\ tail_idx' = LET by == FileAt(files, tail_idx).included_by IN
                   IF by = EMPTY_STACK_IDX THEN EMPTY_STACK_IDX
                   ELSE FileAt(files, by).included_by
    /\ pc' = IF tail_idx' = EMPTY_STACK_IDX THEN "idle" ELSE "running"
    /\ last' = Step("eof", TextLine, <<>>, FALSE, "", Len(files), tail_idx)
    /\ UNCHANGED <<config, known_files, expected_line, writer, log, roots, error>>

\* The iteration in which read_line returns 0: process_recursively ends,
\* and with it process() when the file was the root.
EndOfFile ==
    /\ pc = "running"
    /\ files' = [files EXCEPT ![tail_idx + 1].in_stack = FALSE]
    /\ tail_idx' = FileAt(files, tail_idx).included_by
    /\ pc' = IF tail_idx' = EMPTY_STACK_IDX THEN "idle" ELSE "running"
    /\ last' = Step("eof", TextLine, <<>>, FALSE, "", Len(files), tail_idx)
    /\ UNCHANGED <<config, known_files, expected_line, writer, log, roots, error>>

Next ==
    \/ \E source_file \in RootPaths : Process(source_file)
    \/ \E line \in Lines : TotalReads < MaxReads /\ ProcessLine(line)
    \/ OpenError
    \/ ReadError
    \/ EndOfFile

Spec == Init /\ [][Next]_vars

\* The regular files of a file system: the possible file identities.
Identities(fs) == {p \in DOMAIN fs : fs[p].kind = "file"}

(* ------------------------------- main.rs ------------------------------- *)

\* Number of lines read from files in one run of the Processor of main.rs.
MaxMainReads == 4

\* A line that is empty after trim_end.
BlankLine == [kind |-> "blank", open |-> "", name |-> "", close |-> ""]

IsBlank(line) == line.kind = "blank"

\* include_regex of main.rs: only the quote form matches.
IsQuoteIncludeMatch(line) ==
    line.kind = "include" /\ line.open = "\"" /\ line.close = "\""

\* struct Opts of main.rs; Option fields are <<>> or <<x>>.
MainOpts(file, directories, line_directives, trim_blank, begin, end) ==
    [file |-> file, directories |-> directories,
     line_directives |-> line_directives, trim_blank |-> trim_blank,
     file_begin_comment |-> begin, file_end_comment |-> end]

MainFileState(canonical_path, display_path, has_written) ==
    [canonical_path |-> canonical_path, display_path |-> display_path,
     has_written |-> has_written]

\* enum ProcessingState.
InStack(idx) == [state |-> "InStack", idx |-> idx]
Done == [state |-> "Done", idx |-> 0]

\* The locals of one process() call, and a history of the call:
\* blank_run holds the numbers of the blank lines read since the last
\* non-blank line the file wrote (none while the file has written nothing);
\* nested_wrote says that a file inlined by this call has written a line
\* and that the file of the call has written no non-blank line since.
Frame(line_num, deferred_blank_lines, blank_run, nested_wrote) ==
    [line_num |-> line_num, deferred_blank_lines |-> deferred_blank_lines,
     blank_run |-> blank_run, nested_wrote |-> nested_wrote]

\* A directory exists when the file system has an entry in it.
DirExists(fs, d) == \E q \in DOMAIN fs : q.dir = d /\ fs[q].kind # "none"

\* Path::is_file: a regular file, links followed.
IsFile(fs, q) ==
    /\ Exists(fs, q)
    /\ EntryAt(fs, Canonicalize(fs, q)[1]).kind = "file"

\* try_canonicalize of a directory: <<>> on failure.
try_canonicalize_dir(fs, d) == IF DirExists(fs, d) THEN <<d>> ELSE <<>>

\* The display path of a file found next to the including file: relative
\* to the first include directory that holds it, else the path tried.
DisplayPath(canonical_path, potential_file, include_directories) ==
    LET holding == SelectSeq(include_directories,
                             LAMBDA dir : canonical_path.dir = dir)
    IN IF holding # <<>> THEN P("", canonical_path.name) ELSE potential_file

\* The chain of find_included_file from position i on; [ok, canonical_path,
\* display_path], ok = FALSE when no directory holds the file.
RECURSIVE FindIncluded(_, _, _, _, _, _)
FindIncluded(fs, include_path, current_dir, include_directories, dirs, i) ==
    IF i > Len(dirs)
    THEN [ok |-> FALSE, canonical_path |-> NoPath, display_path |-> NoPath]
    ELSE LET include_dir == dirs[i]
             potential_file == Join(include_dir, include_path)
         IN IF ~IsFile(fs, potential_file)
            THEN FindIncluded(fs, include_path, current_dir,
                              include_directories, dirs, i + 1)
            ELSE LET canonical_path == Canonicalize(fs, potential_file)[1]
                 IN [ok |-> TRUE,
                     canonical_path |-> canonical_path,
                     display_path |->
                        IF include_dir = current_dir
                        THEN DisplayPath(canonical_path, potential_file,
                                         include_directories)
                        ELSE P("", include_path)]

find_included_file(fs, include_path, current_dir, include_directories) ==
    FindIncluded(fs, include_path, current_dir, include_directories,
                 <<current_dir>> \o include_directories, 1)

\* A piece of a comment template: literal text or a placeholder.
Literal(text) == [lit |-> text, path |-> NoPath]
Relative == [lit |-> "{relative}", path |-> NoPath]
Absolute == [lit |-> "{absolute}", path |-> NoPath]

\* expand_comment_template: {relative} becomes the display path and
\* {absolute} the canonical path of the current file.
expand_comment_template(cf, template) ==
    [i \in 1..Len(template) |->
        IF template[i] = Relative THEN [lit |-> "", path |-> cf.display_path]
        ELSE IF template[i] = Absolute
        THEN [lit |-> "", path |-> cf.canonical_path]
        ELSE template[i]]

\* A begin or end comment in the output; path names the file it is for.
CommentLine(tag, comment, path) ==
    [tag |-> tag, line |-> comment, num |-> 0, path |-> path]

\* The part of the Processor that emit_line changes.
Emitter(w, cf, nl) == [writer |-> w, current_file |-> cf, next_line |-> nl]

\* A slip: the begin comment does not ask whether the file is nested.
emit_line_any_file(o, stk, e, line, line_num) ==
    LET cf == e.current_file
        w1 == IF ~cf.has_written /\ o.file_begin_comment # <<>>
              THEN Append(e.writer,
                          CommentLine("begin",
                              expand_comment_template(cf, o.file_begin_comment[1]),
                              cf.canonical_path))
              ELSE e.writer
        file_idx == Len(stk)
        w2 == IF e.next_line # <<file_idx, line_num>> /\ o.line_directives
              THEN Append(w1, Directive(line_num, cf.canonical_path))
              ELSE w1
    IN Emitter(Append(w2, Copied(line, line_num, cf.canonical_path)),
               [cf EXCEPT !.has_written = TRUE],
               <<file_idx, line_num + 1>>)

\* A slip: the begin comment is written before every line of a nested file.
emit_line_begin_each(o, stk, e, line, line_num) ==
    LET cf == e.current_file
        w1 == IF stk # <<>> /\ o.file_begin_comment # <<>>
              THEN Append(e.writer,
                          CommentLine("begin",
                              expand_comment_template(cf, o.file_begin_comment[1]),
                              cf.canonical_path))
              ELSE e.writer
        file_idx == Len(stk)
        w2 == IF e.next_line # <<file_idx, line_num>> /\ o.line_directives
              THEN Append(w1, Directive(line_num, cf.canonical_path))
              ELSE w1
    IN Emitter(Append(w2, Copied(line, line_num, cf.canonical_path)),
               [cf EXCEPT !.has_written = TRUE],
               <<file_idx, line_num + 1>>)

\* emit_line: the begin comment before the first line of a nested file,
\* the directive on a discontinuity, then the line.
emit_line(o, stk, e, line, line_num) ==
    LET cf == e.current_file
        w1 == IF ~cf.has_written /\ stk # <<>> /\ o.file_begin_comment # <<>>
              THEN Append(e.writer,
                          CommentLine("begin",
                              expand_comment_template(cf, o.file_begin_comment[1]),
                              cf.canonical_path))
              ELSE e.writer
        file_idx == Len(stk)
        w2 == IF e.next_line # <<file_idx, line_num>> /\ o.line_directives
              THEN Append(w1, Directive(line_num, cf.canonical_path))
              ELSE w1
    IN Emitter(Append(w2, Copied(line, line_num, cf.canonical_path)),
               [cf EXCEPT !.has_written = TRUE],
               <<file_idx, line_num + 1>>)

\* A slip: of the deferred lines only the last is emitted.
emit_blank_lines_last(o, stk, e, lines) ==
    IF lines = <<>> THEN e
    ELSE emit_line(o, stk, e, lines[Len(lines)][1], lines[Len(lines)][2])

\* emit_blank_lines: emit_line for each deferred line, in order; the
\* caller's vector is left empty.
RECURSIVE emit_blank_lines(_, _, _, _)
emit_blank_lines(o, stk, e, lines) ==
    IF lines = <<>> THEN e
    ELSE emit_blank_lines(o, stk,
                          emit_line(o, stk, e, Head(lines)[1], Head(lines)[2]),
                          Tail(lines))

\* Lines read so far in the run, by the process() calls that are active
\* and by those that ended.
MainReads == last.nread

\* The record of a step of the Processor of main.rs: the line read, the
\* sizes of writer and stack before the step, and reads, the number of
\* lines read in the run after the step.
MainStep(op, line, reads) ==
    [Step(op, line, <<>>, FALSE, "", Len(stack), EMPTY_STACK_IDX)
        EXCEPT !.nread = reads]

\* The comment templates of the runs.
BeginTemplate == <<Literal("// begin "), Relative>>
EndTemplate == <<Literal("// end "), Absolute>>

\* The lines a file of a run of main.rs may hold.
MainLines ==
    {BlankLine, TextLine, PragmaOnceLine, QuoteInclude("a"), QuoteInclude("b"),
     QuoteInclude("r"), QuoteInclude("d"), SystemInclude("a")}

\* The state before fallible_main: a command line and a file system.
InitMain ==
    /\ fsys = EngineFs
    /\ opts \in {MainOpts(file, directories, line_directives, trim_blank, b, e) :
                    file \in {P("src", "r"), P("src", "x")},
                    directories \in {<<"inc">>, <<"nodir">>},
                    line_directives \in BOOLEAN,
                    trim_blank \in BOOLEAN,
                    b \in {<<>>, <<BeginTemplate>>},
                    e \in {<<>>, <<EndTemplate>>}}
    /\ call = NoCall
    /\ resolver = IncludeResolverNew(<<>>, <<>>)
    /\ inlining_filter = InliningFilterNew(<<>>, <<>>)
    /\ error_handling_opts = DefaultErrorHandlingOpts
    /\ expected_line = <<>>
    /\ NoMainRs
    /\ files = <<>>
    /\ known_files = <<>>
    /\ tail_idx = EMPTY_STACK_IDX
    /\ writer = <<>>
    /\ log = <<>>
    /\ pc = "start"
    /\ roots = <<>>
    /\ error = <<>>
    /\ last = MainStep("init", TextLine, 0)

\* What no step of main.rs touches.
mainframe == <<fsys, resolver, inlining_filter, error_handling_opts, opts, call,
               contents, expected_line, files, tail_idx, log, roots>>

\* The directories of Processor::new, canonicalized: <<>> when one fails.
RECURSIVE CanonicalDirs(_, _)
CanonicalDirs(fs, dirs) ==
    IF dirs = <<>> THEN <<<<>>>>
    ELSE LET d == try_canonicalize_dir(fs, Head(dirs))
             rest == CanonicalDirs(fs, Tail(dirs))
         IN IF d = <<>> \/ rest = <<>> THEN <<>>
            ELSE <<<<d[1]>> \o rest[1]>>

\* fallible_main with stdout as the writer: process_file, Processor::new
\* and the root's process() up to the call of File::open.
ProcessFile ==
    /\ pc = "start"
    /\ LET dirs == CanonicalDirs(fsys, opts.directories)
           file == Canonicalize(fsys, opts.file)
       IN IF dirs = <<>> \/ file = <<>>
          THEN /\ pc' = "returned_err"
               /\ error' = <<ErrorValue("canonicalize", <<>>)>>
               /\ UNCHANGED <<known_files, stack, current_file, next_line, frames>>
          ELSE /\ pc' = "reading"
               /\ known_files' = (file[1] :> InStack(0))
               /\ stack' = <<>>
               /\ current_file' = MainFileState(file[1], opts.file, FALSE)
               /\ next_line' = <<0, 1>>
               /\ frames' = <<Frame(0, <<>>, <<>>, FALSE)>>
               /\ UNCHANGED error
    /\ last' = MainStep("process", TextLine, last.nread)
    /\ UNCHANGED <<mainframe, writer, exit_status>>

\* The display paths of a cycle: the stack from idx on, then the current file.
MainCycle(stk, cf, idx) ==
    [i \in 1..(Len(stk) - idx) |-> stk[idx + i].display_path] \o <<cf.display_path>>

\* The frames with the innermost one replaced.
WithTop(fr, f) == [fr EXCEPT ![Len(fr)] = f]

\* One iteration of the loop of process() in which try_read_line returns
\* a line: up to the read of the next line or, after an include that is
\* entered, to the call of File::open on the file entered.
MainLine(line) ==
    /\ pc = "reading"
    /\ LET top == frames[Len(frames)]
           line_num == top.line_num + 1
           deferred == top.deferred_blank_lines
           e0 == Emitter(writer, current_file, next_line)
           current_dir == Parent(current_file.canonical_path)
       IN
       /\ last' = MainStep("line", line, MainReads + 1)
       /\ IF IsBlank(line) /\ opts.trim_blank
          THEN /\ frames' = WithTop(frames,
                               Frame(line_num, Append(deferred, <<line, line_num>>),
                                     IF current_file.has_written
                                     THEN Append(top.blank_run, line_num)
                                     ELSE top.blank_run,
                                     top.nested_wrote))
               /\ UNCHANGED <<writer, current_file, next_line, stack,
                              known_files, pc, error>>
          ELSE IF IsPragmaOnce(line)
          THEN /\ frames' = WithTop(frames, Frame(line_num, deferred, top.blank_run,
                                     top.nested_wrote))
               /\ UNCHANGED <<writer, current_file, next_line, stack,
                              known_files, pc, error>>
          ELSE IF IsQuoteIncludeMatch(line)
          THEN \E f \in {find_included_file(fsys, line.name, current_dir,
                                            opts.directories)} :
                  IF ~f.ok
                  THEN /\ pc' = "returned_err"
                       /\ error' = <<ErrorValue("not_found", <<>>)>>
                       /\ frames' = WithTop(frames, Frame(line_num, deferred, top.blank_run,
                                     top.nested_wrote))
                       /\ UNCHANGED <<writer, current_file, next_line, stack,
                                      known_files>>
                  ELSE IF f.canonical_path \in DOMAIN known_files
                  THEN IF known_files[f.canonical_path].state = "InStack"
                       THEN /\ pc' = "returned_err"
                            /\ error' = <<ErrorValue("cyclic",
                                             MainCycle(stack, current_file,
                                                known_files[f.canonical_path].idx))>>
                            /\ frames' = WithTop(frames, Frame(line_num, deferred, top.blank_run,
                                     top.nested_wrote))
                            /\ UNCHANGED <<writer, current_file, next_line,
                                           stack, known_files>>
                       ELSE /\ frames' = WithTop(frames, Frame(line_num, deferred, top.blank_run,
                                     top.nested_wrote))
                            /\ UNCHANGED <<writer, current_file, next_line,
                                           stack, known_files, pc, error>>
                  ELSE \E flush \in {~opts.trim_blank \/ current_file.has_written} :
                       \E e1 \in {IF flush
                                  THEN emit_blank_lines(opts, stack, e0, deferred)
                                  ELSE e0} :
                          /\ known_files' =
                                known_files @@ (f.canonical_path :> InStack(Len(stack)))
                          /\ writer' = e1.writer
                          /\ next_line' = e1.next_line
                          /\ stack' = Append(stack, e1.current_file)
                          /\ current_file' = MainFileState(f.canonical_path,
                                                           f.display_path, FALSE)
                          /\ frames' = Append(
                                WithTop(frames,
                                        Frame(line_num,
                                              IF flush THEN <<>> ELSE deferred,
                                              top.blank_run, top.nested_wrote)),
                                Frame(0, <<>>, <<>>, FALSE))
                          /\ UNCHANGED <<pc, error>>
          ELSE \E e2 \in {emit_line(opts, stack,
                                     IF opts.trim_blank /\ ~current_file.has_written
                                     THEN e0
                                     ELSE emit_blank_lines(opts, stack, e0, deferred),
                                     line, line_num)} :
                  /\ writer' = e2.writer
                  /\ current_file' = e2.current_file
                  /\ next_line' = e2.next_line
                  /\ frames' = WithTop(frames, Frame(line_num, <<>>, <<>>, FALSE))
                  /\ UNCHANGED <<stack, known_files, pc, error>>
    /\ UNCHANGED <<mainframe, exit_status>>

\* A slip: a file that inlined a file that wrote counts as having written.
MainEof_counting_nested ==
    /\ pc = "reading"
    /\ LET top == frames[Len(frames)]
           e0 == Emitter(writer, current_file, next_line)
           e1 == IF ~opts.trim_blank
                 THEN emit_blank_lines(opts, stack, e0, top.deferred_blank_lines)
                 ELSE e0
           sub_state == e1.current_file
           w2 == IF sub_state.has_written /\ stack # <<>>
                    /\ opts.file_end_comment # <<>>
                 THEN Append(e1.writer,
                             CommentLine("end",
                                 expand_comment_template(sub_state,
                                                         opts.file_end_comment[1]),
                                 sub_state.canonical_path))
                 ELSE e1.writer
       IN /\ writer' = w2
          /\ next_line' = e1.next_line
          /\ IF stack = <<>>
             THEN /\ pc' = "returned_ok"
                  /\ current_file' = sub_state
                  /\ frames' = <<>>
                  /\ UNCHANGED <<stack, known_files>>
             ELSE LET parent == frames[Len(frames) - 1]
                  IN /\ current_file' =
                           [stack[Len(stack)] EXCEPT
                               !.has_written = @ \/ sub_state.has_written]
                     /\ stack' = SubSeq(stack, 1, Len(stack) - 1)
                     /\ frames' = WithTop(SubSeq(frames, 1, Len(frames) - 1),
                                     Frame(parent.line_num, parent.deferred_blank_lines,
                                           parent.blank_run,
                                           parent.nested_wrote \/ sub_state.has_written))
                     /\ known_files' = [known_files EXCEPT
                                           ![sub_state.canonical_path] = Done]
                     /\ UNCHANGED pc
    /\ last' = MainStep("eof", TextLine, MainReads)
    /\ UNCHANGED <<mainframe, error, exit_status>>

\* The iteration in which try_read_line returns 0: process() ends; the
\* caller pops the stack and marks the file Done, or, for the root,
\* process_file returns.
MainEof ==
    /\ pc = "reading"
    /\ LET top == frames[Len(frames)]
           e0 == Emitter(writer, current_file, next_line)
           e1 == IF ~opts.trim_blank
                 THEN emit_blank_lines(opts, stack, e0, top.deferred_blank_lines)
                 ELSE e0
           sub_state == e1.current_file
           w2 == IF sub_state.has_written /\ stack # <<>>
                    /\ opts.file_end_comment # <<>>
                 THEN Append(e1.writer,
                             CommentLine("end",
                                 expand_comment_template(sub_state,
                                                         opts.file_end_comment[1]),
                                 sub_state.canonical_path))
                 ELSE e1.writer
       IN /\ writer' = w2
          /\ next_line' = e1.next_line
          /\ IF stack = <<>>
             THEN /\ pc' = "returned_ok"
                  /\ current_file' = sub_state
                  /\ frames' = <<>>
                  /\ UNCHANGED <<stack, known_files>>
             ELSE LET parent == frames[Len(frames) - 1]
                  IN /\ current_file' = stack[Len(stack)]
                     /\ stack' = SubSeq(stack, 1, Len(stack) - 1)
                     /\ frames' = WithTop(SubSeq(frames, 1, Len(frames) - 1),
                                     Frame(parent.line_num,
                                           IF sub_state.has_written THEN <<>>
                                           ELSE parent.deferred_blank_lines,
                                           parent.blank_run,
                                           parent.nested_wrote \/ sub_state.has_written))
                     /\ known_files' = [known_files EXCEPT
                                           ![sub_state.canonical_path] = Done]
                     /\ UNCHANGED pc
    /\ last' = MainStep("eof", TextLine, MainReads)
    /\ UNCHANGED <<mainframe, error, exit_status>>

\* File::open fails on the file process() was just called for.
MainOpenError ==
    /\ pc = "reading"
    /\ frames[Len(frames)].line_num = 0
    /\ pc' = "returned_err"
    /\ error' = <<ErrorValue("open", <<>>)>>
    /\ last' = MainStep("open_error", TextLine, MainReads)
    /\ UNCHANGED <<mainframe, writer, known_files, stack, current_file,
                   next_line, frames, exit_status>>

\* The iteration in which read_line fails.
MainReadError ==
    /\ pc = "reading"
    /\ pc' = "returned_err"
    /\ error' = <<ErrorValue("read", <<>>)>>
    /\ last' = MainStep("read_error", TextLine, MainReads)
    /\ UNCHANGED <<mainframe, writer, known_files, stack, current_file,
                   next_line, frames, exit_status>>

\* main after fallible_main returned: an error is printed; main returns ().
MainExit ==
    /\ pc \in {"returned_ok", "returned_err"}
    /\ pc' = "exited"
    /\ exit_status' = <<0>>
    /\ last' = MainStep("exit", TextLine, MainReads)
    /\ UNCHANGED <<mainframe, writer, known_files, stack, current_file,
                   next_line, frames, error>>

NextMain ==
    \/ ProcessFile
    \/ \E line \in MainLines : MainReads < MaxMainReads /\ MainLine(line)
    \/ MainEof
    \/ MainOpenError
    \/ MainReadError
    \/ MainExit

SpecMain == InitMain /\ [][NextMain]_vars

(* -------------- main.rs with line directives, longer runs -------------- *)

\* Number of lines read from files in one run of main.rs with directives.
MaxMainDirectiveReads == 5

\* The lines a file of these runs may hold.
MainDirectiveLines ==
    {TextLine, PragmaOnceLine, QuoteInclude("a"), QuoteInclude("b")}

\* The state before fallible_main for 'src/r inc --line-directives'.
InitMainDirectives ==
    /\ InitMain
    /\ opts = MainOpts(P("src", "r"), <<"inc">>, TRUE, FALSE, <<>>, <<>>)

NextMainDirectives ==
    \/ ProcessFile
    \/ \E line \in MainDirectiveLines :
          MainReads < MaxMainDirectiveReads /\ MainLine(line)
    \/ MainEof
    \/ MainOpenError
    \/ MainReadError
    \/ MainExit

SpecMainDirectives == InitMainDirectives /\ [][NextMainDirectives]_vars

\* Both programs of the repository: the Processor of process.rs under its
\* policies, filters and line-directive setting, and the Processor of
\* main.rs under its line-directive, blank-trimming and comment settings.
SpecBoth == (Init \/ InitMain) /\ [][Next \/ NextMain]_vars

(* ------------- the engine in an environment that may fail -------------- *)

\* The iteration in which process_line reads an include line and the
\* resolver returns Err: canonicalize fails on the current directory (quote
\* form) or on a candidate that exists and is no directory.
ResolveError(line) ==
    /\ pc = "running"
    /\ IsIncludeMatch(line)
    /\ \/ line.open = "\"" /\ line.close = "\""
       \/ /\ line.open = "<" /\ line.close = ">"
          /\ FindCandidate(fsys, line.name, resolver.system_search_paths) # <<>>
    /\ LET fl == [files EXCEPT ![tail_idx + 1].line_num = @ + 1] IN
       \E r \in {IncludeResolved(fl, known_files, tail_idx, line,
                                 line.open = "<", [ok |-> FALSE, val |-> <<>>])} :
          IncludeStep(line, fl, r)
    /\ last' = Step("resolve_error", line, <<>>, FALSE, "", Len(files), tail_idx)
    /\ UNCHANGED <<config, roots>>

NextFaults ==
    \/ Next
    \/ \E line \in Lines : TotalReads < MaxReads /\ ResolveError(line)

SpecFaults == Init /\ [][NextFaults]_vars

(* ------------- the engine on files whose lines are fixed --------------- *)

\* Number of lines the files of a run hold together.
MaxExpandLines == 4

\* The lines a file of these runs may hold.
ExpandLines ==
    {TextLine, SystemInclude("a"), SystemInclude("b"), QuoteInclude("b"),
     SystemInclude("r")}

\* The contents of src/r and inc/a with l[1] and l[2] lines; inc/b holds
\* one line of text.
ContentsOf(l) ==
    {(P("src", "r") :> x) @@ (P("inc", "a") :> y) @@ (P("inc", "b") :> <<TextLine>>) :
        x \in [1..l[1] -> ExpandLines],
        y \in [1..l[2] -> ExpandLines]}

ExpandContents ==
    UNION {ContentsOf(l) :
              l \in {m \in (0..MaxExpandLines) \X (0..MaxExpandLines) :
                        m[1] + m[2] <= MaxExpandLines}}

\* The source files process() is given in these runs.
ExpandRootPaths == {P("src", "r"), P("inc", "a")}

\* Processor::new without line directives, under the default policies,
\* under Warn and under Ignore, on files with given lines.
InitExpand ==
    /\ fsys = EngineFs
    /\ opts = EngineOpts
    /\ call = NoCall
    /\ resolver = IncludeResolverNew(quote_search_dirs(opts),
                                     system_search_dirs(opts))
    /\ inlining_filter = InliningFilterNew(quote_filter_globs(opts),
                                           system_filter_globs(opts))
    /\ error_handling_opts \in
          {DefaultErrorHandlingOpts} \cup
          {[cyclic_include |-> h, unresolvable_quote_include |-> h,
            unresolvable_system_include |-> h] : h \in {"Warn", "Ignore"}}
    /\ expected_line = <<>>
    /\ contents \in ExpandContents
    /\ stack = <<>>
    /\ current_file = <<>>
    /\ next_line = <<0, 1>>
    /\ frames = <<>>
    /\ exit_status = <<>>
    /\ files = <<>>
    /\ known_files = <<>>
    /\ tail_idx = EMPTY_STACK_IDX
    /\ writer = <<>>
    /\ log = <<>>
    /\ pc = "idle"
    /\ roots = <<>>
    /\ error = <<>>
    /\ last = Step("init", TextLine, <<>>, FALSE, "", 0, EMPTY_STACK_IDX)

\* read_line returns the next line of the file being read.
ReadLine ==
    /\ pc = "running"
    /\ LET f == FileAt(files, tail_idx) IN
       /\ f.line_num < Len(contents[f.canonical_path])
       /\ ProcessLine(contents[f.canonical_path][f.line_num + 1])

\* read_line returns 0 after the last line of the file being read.
ReadEnd ==
    /\ pc = "running"
    /\ LET f == FileAt(files, tail_idx) IN
       f.line_num = Len(contents[f.canonical_path])
    /\ EndOfFile

\* The runs in an environment where open and read do not fail.
NextExpand ==
    \/ \E source_file \in ExpandRootPaths : Process(source_file)
    \/ ReadLine
    \/ ReadEnd

SpecExpand == InitExpand /\ [][NextExpand]_vars

(* ------------- two runs on the same files and source files ------------- *)

\* Number of lines the files of the two runs hold together.
MaxTwinLines == 2

\* The lines a file of these runs may hold: text, an include of inc/a and
\* two includes that do not resolve.
TwinLines == {TextLine, SystemInclude("a"), QuoteInclude("d"), SystemInclude("d")}

\* The contents of src/r and inc/a, at most MaxTwinLines lines together.
TwinContents ==
    {(P("src", "r") :> l[1]) @@ (P("inc", "a") :> l[2]) :
        l \in {m \in (UNION {[1..n -> TwinLines] : n \in 0..MaxTwinLines})
                     \X (UNION {[1..n -> TwinLines] : n \in 0..MaxTwinLines}) :
                  Len(m[1]) + Len(m[2]) <= MaxTwinLines}}

\* Processor::new under any policies of which one at least is Warn, with
\* and without line directives, on files with given lines.
InitTwin ==
    /\ fsys = EngineFs
    /\ opts = EngineOpts
    /\ call = NoCall
    /\ resolver = IncludeResolverNew(quote_search_dirs(opts),
                                     system_search_dirs(opts))
    /\ inlining_filter = InliningFilterNew(quote_filter_globs(opts),
                                           system_filter_globs(opts))
    /\ error_handling_opts \in
          {e \in [cyclic_include : ErrorHandling,
                  unresolvable_quote_include : ErrorHandling,
                  unresolvable_system_include : ErrorHandling] :
              \E policy \in DOMAIN e : e[policy] = "Warn"}
    /\ \E line_directives \in BOOLEAN :
          expected_line = IF line_directives
                          THEN <<LineRef(EMPTY_STACK_IDX, 0)>>
                          ELSE <<>>
    /\ contents \in TwinContents
    /\ stack = <<>>
    /\ current_file = <<>>
    /\ next_line = <<0, 1>>
    /\ frames = <<>>
    /\ exit_status = <<>>
    /\ files = <<>>
    /\ known_files = <<>>
    /\ tail_idx = EMPTY_STACK_IDX
    /\ writer = <<>>
    /\ log = <<>>
    /\ pc = "idle"
    /\ roots = <<>>
    /\ error = <<>>
    /\ last = Step("init", TextLine, <<>>, FALSE, "", 0, EMPTY_STACK_IDX)

\* What a run leaves when its last process() call has returned.
RunResult(policy) ==
    [policy |-> policy, roots |-> roots, writer |-> writer, pc |-> pc,
     files |-> files, known_files |-> known_files, log |-> log]

\* The program is run again on the same files, with the same options but
\* for the given policy, which was Warn and is Ignore now: Processor::new.
\* call keeps what the first run left.
SecondRun(policy) ==
    /\ call = NoCall
    /\ pc \in {"idle", "failed"}
    /\ roots # <<>>
    /\ error_handling_opts[policy] = "Warn"
    /\ call' = [fn |-> "run", args |-> <<>>, ret |-> <<RunResult(policy)>>]
    /\ error_handling_opts' = [error_handling_opts EXCEPT ![policy] = "Ignore"]
    /\ expected_line' = IF expected_line = <<>> THEN <<>>
                        ELSE <<LineRef(EMPTY_STACK_IDX, 0)>>
    /\ files' = <<>>
    /\ known_files' = <<>>
    /\ tail_idx' = EMPTY_STACK_IDX
    /\ writer' = <<>>
    /\ log' = <<>>
    /\ pc' = "idle"
    /\ roots' = <<>>
    /\ error' = <<>>
    /\ last' = Step("init", TextLine, <<>>, FALSE, "", 0, EMPTY_STACK_IDX)
    /\ UNCHANGED <<fsys, resolver, inlining_filter, opts, contents, stack,
                   current_file, next_line, frames, exit_status>>

\* A run, and after it a second run under the other policy.
NextTwin ==
    \/ \E source_file \in ExpandRootPaths : Process(source_file)
    \/ ReadLine
    \/ ReadEnd
    \/ \E policy \in {"cyclic_include", "unresolvable_quote_include",
                      "unresolvable_system_include"} : SecondRun(policy)

SpecTwin == InitTwin /\ [][NextTwin]_vars

(* ------------------- the engine with line directives ------------------- *)

\* Number of lines read from files in one run with line directives.
MaxDirectiveReads == 3

\* Processor::new with line_directives = true, under the default policies.
InitDirectives ==
    /\ fsys = EngineFs
    /\ opts = EngineOpts
    /\ call = NoCall
    /\ resolver = IncludeResolverNew(quote_search_dirs(opts),
                                     system_search_dirs(opts))
    /\ inlining_filter = InliningFilterNew(quote_filter_globs(opts),
                                           system_filter_globs(opts))
    /\ error_handling_opts = DefaultErrorHandlingOpts
    /\ expected_line = <<LineRef(EMPTY_STACK_IDX, 0)>>
    /\ InitEngine

NextDirectives ==
    \/ \E source_file \in RootPaths : Process(source_file)
    \/ \E line \in Lines : TotalReads < MaxDirectiveReads /\ ProcessLine(line)
    \/ OpenError
    \/ ReadError
    \/ EndOfFile

SpecDirectives == InitDirectives /\ [][NextDirectives]_vars

(* ----------- the engine on files that may end without a newline -------- *)

\* Number of lines the files of such a run hold together.
MaxEolLines == 3

\* A line of text that read_line returns without a newline at its end: the
\* last line of a file that does not end with one.
UnterminatedLine == [kind |-> "text", open |-> "", name |-> "", close |-> "eof"]

\* write! copies the line as read_line returned it, with its newline if
\* it has one.
EndsWithNewline(line) == line # UnterminatedLine

\* The lines of a file: text and includes of inc/a, the last line being
\* terminated or not.
EolFiles ==
    UNION {{f \in [1..n -> {TextLine, UnterminatedLine, SystemInclude("a")}] :
               \A k \in 1..(n - 1) : EndsWithNewline(f[k])} : n \in 0..MaxEolLines}

\* Processor::new with line directives, under the default policies, on
\* src/r and inc/a with given lines; inc/b holds one line of text.
InitEol ==
    /\ fsys = EngineFs
    /\ opts = EngineOpts
    /\ call = NoCall
    /\ resolver = IncludeResolverNew(quote_search_dirs(opts),
                                     system_search_dirs(opts))
    /\ inlining_filter = InliningFilterNew(quote_filter_globs(opts),
                                           system_filter_globs(opts))
    /\ error_handling_opts = DefaultErrorHandlingOpts
    /\ expected_line = <<LineRef(EMPTY_STACK_IDX, 0)>>
    /\ stack = <<>>
    /\ current_file = <<>>
    /\ next_line = <<0, 1>>
    /\ frames = <<>>
    /\ exit_status = <<>>
    /\ files = <<>>
    /\ known_files = <<>>
    /\ tail_idx = EMPTY_STACK_IDX
    /\ writer = <<>>
    /\ log = <<>>
    /\ pc = "idle"
    /\ roots = <<>>
    /\ error = <<>>
    /\ last = Step("init", TextLine, <<>>, FALSE, "", 0, EMPTY_STACK_IDX)
    /\ contents \in
          {(P("src", "r") :> l[1]) @@ (P("inc", "a") :> l[2])
              @@ (P("inc", "b") :> <<TextLine>>) :
                 l \in {m \in EolFiles \X EolFiles :
                           Len(m[1]) + Len(m[2]) <= MaxEolLines}}

SpecEol == InitEol /\ [][NextExpand]_vars

(* -------------- the engine under the policies of a command line -------- *)

\* No occurrence or one occurrence of a policy option.
PolicyArgs(name) == {<<>>} \cup {<<Arg(name, h)>> : h \in ErrorHandling}

\* The policy options of a command line that clap accepts:
\* --unresolvable-include conflicts with the two options per kind.
PolicyLines ==
    {l[1] \o l[2] \o l[3] :
        l \in {m \in PolicyArgs("unresolvable-include")
                       \X PolicyArgs("unresolvable-quote-include")
                       \X PolicyArgs("unresolvable-system-include") :
                  m[1] = <<>> \/ (m[2] = <<>> /\ m[3] = <<>>)}}

\* Processor::new with the policies the command line configures.
InitPolicy ==
    /\ fsys = EngineFs
    /\ opts \in {EngineOpts \o l : l \in PolicyLines}
    /\ call = NoCall
    /\ resolver = IncludeResolverNew(quote_search_dirs(opts),
                                     system_search_dirs(opts))
    /\ inlining_filter = InliningFilterNew(quote_filter_globs(opts),
                                           system_filter_globs(opts))
    /\ error_handling_opts = ErrorHandlingOptsOf(opts)
    /\ expected_line = <<>>
    /\ InitEngine

SpecPolicy == InitPolicy /\ [][Next]_vars

(* ------------- the functions of cli.rs, filter.rs, resolve.rs ---------- *)

\* Everything a call of one of these functions leaves alone.
idle == <<fsys, resolver, inlining_filter, error_handling_opts, opts,
          expected_line, files, known_files, tail_idx, writer, log, pc, roots,
          error, last, contents, mainrs>>

Call(fn, args, ret) == [fn |-> fn, args |-> args, ret |-> ret]

\* The state around a command line o and a file system fs, before any call.
InitFrom(o, fs) ==
    /\ fsys = fs
    /\ opts = o
    /\ call = NoCall
    /\ resolver = IncludeResolverNew(quote_search_dirs(o), system_search_dirs(o))
    /\ inlining_filter = InliningFilterNew(quote_filter_globs(o),
                                           system_filter_globs(o))
    /\ error_handling_opts = DefaultErrorHandlingOpts
    /\ expected_line = <<>>
    /\ InitEngine

\* --dir, --dir-quote and --dir-system options over two directories.
DirArgs ==
    {Arg(n, d) : n \in {"dir", "dir-quote", "dir-system"}, d \in {"d1", "d2"}}

\* --filter, --filter-quote and --filter-system options over the globs
\* '**', '**/b', 'inc/**' and their inversions.
FilterArgs ==
    {Arg(n, InvertibleGlob(g, inv)) :
        n \in {"filter", "filter-quote", "filter-system"},
        g \in {GlobAll, GlobName("b"), GlobDir("inc")},
        inv \in BOOLEAN}

\* Opts::quote_search_dirs .. Opts::system_filter_globs on command lines
\* of search-directory options and on command lines of filter options.
InitMerge ==
    \E o \in SeqsUpTo(DirArgs, MaxArgs) \cup SeqsUpTo(FilterArgs, MaxArgs) :
        InitFrom(o, EngineFs)

QuoteSearchDirs ==
    /\ call' = Call("quote_search_dirs", <<>>, quote_search_dirs(opts))
    /\ UNCHANGED idle

SystemSearchDirs ==
    /\ call' = Call("system_search_dirs", <<>>, system_search_dirs(opts))
    /\ UNCHANGED idle

QuoteFilterGlobs ==
    /\ call' = Call("quote_filter_globs", <<>>, quote_filter_globs(opts))
    /\ UNCHANGED idle

SystemFilterGlobs ==
    /\ call' = Call("system_filter_globs", <<>>, system_filter_globs(opts))
    /\ UNCHANGED idle

NextMerge ==
    \/ QuoteSearchDirs
    \/ SystemSearchDirs
    \/ QuoteFilterGlobs
    \/ SystemFilterGlobs

SpecMerge == InitMerge /\ [][NextMerge]_vars

\* InliningFilter::should_inline on the filter built from a command line.
InitFilter == \E o \in SeqsUpTo(FilterArgs, MaxArgs) : InitFrom(o, EngineFs)

ShouldInline(path, is_system) ==
    /\ call' = Call("should_inline", <<path, is_system>>,
                    should_inline(inlining_filter, path, is_system))
    /\ UNCHANGED idle

NextFilter ==
    \E path \in Identities(fsys), is_system \in BOOLEAN :
        ShouldInline(path, is_system)

SpecFilter == InitFilter /\ [][NextFilter]_vars

\* What the reference x may be in a directory: nothing, a regular file, a
\* directory, a link to a regular file, a link to a directory or a
\* dangling link.
EntryKinds ==
    {Absent, RegularFile, Directory, SymLink(P("t", "f")), SymLink(P("t", "d")),
     SymLink(P("t", "none"))}

\* The file systems of the resolver calls: the reference x in the including
\* file's directory cur and in the search directories d1 and d2.
ResolveFs ==
    {(P("t", "f") :> RegularFile) @@ (P("t", "d") :> Directory) @@
     (P("cur", "x") :> k0) @@ (P("d1", "x") :> k1) @@ (P("d2", "x") :> k2) :
        k0 \in EntryKinds, k1 \in EntryKinds, k2 \in EntryKinds}

\* IncludeResolver::resolve_quote and resolve_system on the resolver built
\* from a command line.
InitResolve ==
    \E o \in SeqsUpTo(DirArgs, MaxArgs), fs \in ResolveFs : InitFrom(o, fs)

ResolveQuote(path, current_dir) ==
    /\ call' = Call("resolve_quote", <<path, current_dir>>,
                    resolve_quote(fsys, resolver, path, current_dir))
    /\ UNCHANGED idle

ResolveSystem(path) ==
    /\ call' = Call("resolve_system", <<path>>,
                    resolve_system(fsys, resolver, path))
    /\ UNCHANGED idle

NextResolve ==
    \/ ResolveQuote("x", "cur")
    \/ ResolveSystem("x")

SpecResolve == InitResolve /\ [][NextResolve]_vars

(* ------------------- what the last step wrote and logged --------------- *)

\* The writer entries and the log records the last step added.
Written == SubSeq(writer, last.nwriter + 1, Len(writer))
Logged == SubSeq(log, last.nlog + 1, Len(log))

\* The copied lines among some writer entries (directives left out).
ContentOf(w) == SelectSeq(w, LAMBDA e : e.tag = "line")

\* The last step read an include line that resolved and that the filter
\* of its kind approved.
ApprovedInclude == last.op = "line" /\ last.approved

\* The last step kept the line it read: the one copied line it wrote is
\* that line, under the number it has in the file that was the tail.
KeptLine ==
    /\ last.tail # EMPTY_STACK_IDX
    /\ ContentOf(Written) =
          <<Copied(last.line, FileAt(files, last.tail).line_num,
                   FileAt(files, last.tail).canonical_path)>>

\* The last step entered no file.
NothingEntered == Len(files) = last.nfiles /\ tail_idx = last.tail

\* The number of records on the chain from idx along included_by.
RECURSIVE ChainLength(_, _)
ChainLength(idx, fuel) ==
    IF idx = EMPTY_STACK_IDX \/ fuel = 0 THEN 0
    ELSE 1 + ChainLength(FileAt(files, idx).included_by, fuel - 1)

(* ------------------------------ claims --------------------------------- *)

\* C1 (as stated): each canonical identity is entered at most once, its
\* lines are written only while it is the file being read, and every later
\* approved include that resolves to an identity already known (on the
\* stack or done) writes nothing at all.
C1_AsStated ==
    /\ \A i, j \in 1..Len(files) :
          files[i].canonical_path = files[j].canonical_path => i = j
    /\ (ApprovedInclude /\ last.before \in {"InStack", "Done"}) => Written = <<>>

\* C1 (amended): each canonical identity is entered at most once and no line
\* of a file is written twice; a step writes only lines of the file it
\* reads; a later approved include of an identity that is done writes
\* nothing and enters nothing; a later approved include of an identity that
\* is still on the stack enters nothing and writes at most the include line
\* itself, never a line of the file it names.
C1_InlinedAtMostOnce ==
    /\ \A i, j \in 1..Len(files) :
          files[i].canonical_path = files[j].canonical_path => i = j
    /\ \A i, j \in 1..Len(writer) :
          (/\ writer[i].tag = "line" /\ writer[j].tag = "line"
           /\ writer[i].path = writer[j].path /\ writer[i].num = writer[j].num)
          => i = j
    /\ \A i \in 1..Len(Written) :
          Written[i].tag = "line" =>
             /\ last.tail # EMPTY_STACK_IDX
             /\ Written[i].path = FileAt(files, last.tail).canonical_path
    /\ (ApprovedInclude /\ last.before = "Done") =>
          Written = <<>> /\ NothingEntered
    /\ (ApprovedInclude /\ last.before = "InStack") =>
          /\ Len(files) = last.nfiles
          /\ Written = <<>> \/ KeptLine

\* A file that wrote a line is done and is included again, through the
\* symbolic link inc/r: the include writes nothing.
C1_Witness ==
    /\ ApprovedInclude
    /\ last.before = "Done"
    /\ last.line = SystemInclude("r")
    /\ last.resolved = <<P("src", "r")>>
    /\ \E i \in 1..Len(writer) :
          writer[i].tag = "line" /\ writer[i].path = P("src", "r")
    /\ Written = <<>>

\* C2: under every cyclic-include policy a file that is on the stack is
\* never entered again (by an include or by a root call), so no two records
\* on the stack name the same identity, the depth of the recursion and the
\* number of files entered never exceed the number of file identities.
C2_NoReentry ==
    /\ \A i, j \in 1..Len(files) :
          (/\ files[i].in_stack /\ files[j].in_stack
           /\ files[i].canonical_path = files[j].canonical_path) => i = j
    /\ (last.op \in {"line", "process"} /\ last.approved
        /\ last.before = "InStack") =>
          /\ Len(files) = last.nfiles
          /\ pc = "failed" \/ tail_idx = last.tail
    /\ ChainLength(tail_idx, Len(files) + 1) <= Cardinality(Identities(fsys))
    /\ Len(files) <= Cardinality(Identities(fsys))

\* A cycle that leads back to the root file, through a second file, is
\* tolerated: the root is not entered again and reading goes on.
C2_Witness ==
    /\ ApprovedInclude
    /\ last.before = "InStack"
    /\ Len(files) = 2
    /\ last.resolved = <<FileAt(files, 0).canonical_path>>
    /\ tail_idx = 1
    /\ pc = "running"

\* C3: when an approved include resolves to a file on the stack, the Error
\* policy (the policy also when --cyclic-include is not given) fails the
\* run with the cyclic-include error and writes nothing; Warn and Ignore
\* keep the include line verbatim, enter no file and go on reading.
C3_CyclicPolicy ==
    /\ OptValue(opts, "cyclic-include") = <<>> =>
          error_handling_opts.cyclic_include = "Error"
    /\ (ApprovedInclude /\ last.before = "InStack") =>
          IF error_handling_opts.cyclic_include = "Error"
          THEN /\ pc = "failed"
               /\ error # <<>> /\ error[1].what = "cyclic"
               /\ Written = <<>>
               /\ NothingEntered
          ELSE /\ pc = "running"
               /\ error = <<>>
               /\ KeptLine
               /\ NothingEntered

\* A cycle under Warn: the include line is kept and reading goes on.
C3_Witness ==
    /\ ApprovedInclude
    /\ last.before = "InStack"
    /\ error_handling_opts.cyclic_include = "Warn"
    /\ KeptLine
    /\ pc = "running"

\* C4 (as stated): under Ignore an include that resolves to a file on the
\* stack is dropped from the output, the file is not entered and nothing
\* is logged.
C4_AsStated ==
    (/\ ApprovedInclude /\ last.before = "InStack"
     /\ error_handling_opts.cyclic_include = "Ignore") =>
       /\ Written = <<>>
       /\ NothingEntered
       /\ Logged = <<>>

\* C4 (amended): under Ignore an include that resolves to a file on the
\* stack is kept verbatim in the output, the file is not entered, reading
\* goes on, and no warning is logged: the one record is at debug level.
C4_IgnoreKeepsLine ==
    (/\ ApprovedInclude /\ last.before = "InStack"
     /\ error_handling_opts.cyclic_include = "Ignore") =>
       /\ KeptLine
       /\ NothingEntered
       /\ pc = "running"
       /\ Len(Logged) = 1
       /\ Logged[1].level = "debug" /\ Logged[1].what = "cyclic"

\* A file that includes itself under Ignore.
C4_Witness ==
    /\ ApprovedInclude
    /\ last.before = "InStack"
    /\ error_handling_opts.cyclic_include = "Ignore"
    /\ last.resolved = <<FileAt(files, last.tail).canonical_path>>
    /\ KeptLine

\* The last step read a quote or system include that did not resolve.
Unresolved ==
    /\ last.op = "line"
    /\ IsIncludeMatch(last.line)
    /\ \/ last.line.open = "\"" /\ last.line.close = "\""
       \/ last.line.open = "<" /\ last.line.close = ">"
    /\ last.resolved = <<>>

\* The policy configured for the kind of the include line read last.
PolicyOfKind ==
    IF last.line.open = "<"
    THEN error_handling_opts.unresolvable_system_include
    ELSE error_handling_opts.unresolvable_quote_include

\* C10: for an include that does not resolve, the policy of its kind
\* decides: Error fails the run; Warn logs one warning, keeps the line
\* verbatim and goes on; Ignore keeps the line verbatim, goes on and logs
\* no warning.  In no case a file is entered.
C10_UnresolvablePolicy ==
    Unresolved =>
       /\ NothingEntered
       /\ PolicyOfKind = "Error" =>
             /\ pc = "failed"
             /\ error # <<>> /\ error[1].what = "unresolved"
             /\ Written = <<>>
             /\ Logged = <<>>
       /\ PolicyOfKind = "Warn" =>
             /\ pc = "running"
             /\ KeptLine
             /\ Logged = <<LogRecord("warn", "unresolved", <<>>, last.line)>>
       /\ PolicyOfKind = "Ignore" =>
             /\ pc = "running"
             /\ KeptLine
             /\ \A i \in 1..Len(Logged) : Logged[i].level # "warn"

\* A quote include that does not resolve, under Warn for quote includes
\* and Error for system includes.
C10_Witness ==
    /\ Unresolved
    /\ last.line = QuoteInclude("d")
    /\ error_handling_opts.unresolvable_quote_include = "Warn"
    /\ error_handling_opts.unresolvable_system_include = "Error"
    /\ KeptLine
    /\ pc = "running"

(* --------------- claims on the filter and the option merging ----------- *)

\* The globs of one include kind, as the command line gives them: the
\* options of the shared name and of the kind's own name, in command-line
\* order.
OptionsNamed(names) == SelectSeq(opts, LAMBDA a : a.name \in names)

\* The positions, among the options named, of the globs matching path.
MatchingPositions(names, path) ==
    {i \in 1..Len(OptionsNamed(names)) :
        GlobMatches(OptionsNamed(names)[i].value.glob, path)}

Max(S) == CHOOSE m \in S : \A n \in S : n <= m

FilterNames(is_system) ==
    {"filter", IF is_system THEN "filter-system" ELSE "filter-quote"}

\* C5: should_inline is true when no glob of the include's kind matches
\* the path; otherwise the matching glob that is last on the command line
\* decides: an inverted glob inlines, a plain glob does not.
C5_LastMatchDecides ==
    call.fn = "should_inline" =>
       LET path == call.args[1]
           names == FilterNames(call.args[2])
           matching == MatchingPositions(names, path)
       IN IF matching = {} THEN call.ret = TRUE
          ELSE call.ret = OptionsNamed(names)[Max(matching)].value.inverted

\* A plain glob excludes inc/b, a later inverted glob matches it too: the
\* file is inlined.
C5_Witness ==
    /\ call.fn = "should_inline"
    /\ call.args = <<P("inc", "b"), TRUE>>
    /\ Cardinality(MatchingPositions(FilterNames(TRUE), P("inc", "b"))) >= 2
    /\ ~OptionsNamed(FilterNames(TRUE))[1].value.inverted
    /\ GlobMatches(OptionsNamed(FilterNames(TRUE))[1].value.glob, P("inc", "b"))
    /\ call.ret = TRUE

\* The two option names whose values a merging function of Opts combines.
MergedNames ==
    IF call.fn = "quote_search_dirs" THEN {"dir", "dir-quote"}
    ELSE IF call.fn = "system_search_dirs" THEN {"dir", "dir-system"}
    ELSE IF call.fn = "quote_filter_globs" THEN {"filter", "filter-quote"}
    ELSE {"filter", "filter-system"}

MergeCalls ==
    {"quote_search_dirs", "system_search_dirs", "quote_filter_globs",
     "system_filter_globs"}

\* C6: the list of one include kind holds the values of the shared option
\* and of the kind's own option, each once, in the order of their positions
\* on the command line, and no value of the other kind's option.
C6_MergedByCliOrder ==
    call.fn \in MergeCalls =>
       LET both == OptionsNamed(MergedNames) IN
       /\ Len(call.ret) = Len(both)
       /\ \A i \in 1..Len(both) : call.ret[i] = both[i].value

\* A kind-specific directory before a shared one, and a directory of the
\* other kind between them.
C6_Witness ==
    /\ call.fn = "quote_search_dirs"
    /\ opts = <<Arg("dir-quote", "d2"), Arg("dir-system", "d2"), Arg("dir", "d1")>>
    /\ call.ret = <<"d2", "d1">>

(* ------------------------ claims on the resolver ----------------------- *)

\* The directories a call of the resolver may search, in order: for a
\* quote include the including file's directory and then the directories
\* of --dir and --dir-quote, for a system include those of --dir and
\* --dir-system.
SearchOrder ==
    IF call.fn = "resolve_quote"
    THEN LET ds == OptionsNamed({"dir", "dir-quote"})
         IN <<call.args[2]>> \o [i \in 1..Len(ds) |-> ds[i].value]
    ELSE LET ds == OptionsNamed({"dir", "dir-system"})
         IN [i \in 1..Len(ds) |-> ds[i].value]

\* The candidate of directory d names a regular file, links followed.
NamesRegularFile(d) ==
    LET c == Canonicalize(fsys, Join(d, call.args[1])) IN
    c # <<>> /\ EntryAt(fsys, c[1]).kind = "file"

ResolverCalls == {"resolve_quote", "resolve_system"}

\* C7: resolve returns the canonical path of the file in the earliest
\* directory of the search order whose candidate is a regular file.
C7_EarliestCandidate ==
    call.fn \in ResolverCalls =>
       \A i \in 1..Len(SearchOrder) :
          (/\ NamesRegularFile(SearchOrder[i])
           /\ \A j \in 1..(i - 1) : ~NamesRegularFile(SearchOrder[j]))
          => call.ret = [ok |-> TRUE,
                         val |-> Canonicalize(fsys,
                                    Join(SearchOrder[i], call.args[1]))]

\* The including file's directory links to t/f, the search directory d1
\* holds a regular file of its own: the quote include resolves to t/f.
C7_Witness ==
    /\ call.fn = "resolve_quote"
    /\ fsys[P("cur", "x")] = SymLink(P("t", "f"))
    /\ fsys[P("d1", "x")] = RegularFile
    /\ opts = <<Arg("dir-quote", "d1")>>
    /\ call.ret.val = <<P("t", "f")>>

\* C8: a system include is never resolved against the including file's
\* directory or a --dir-quote directory, a quote include never against a
\* --dir-system directory: what resolve returns is the candidate of a
\* directory of the include's own search order, and a reference that is a
\* regular file in no such directory is not found.
C8_KindsApart ==
    call.fn \in ResolverCalls =>
       IF \E i \in 1..Len(SearchOrder) : NamesRegularFile(SearchOrder[i])
       THEN \E i \in 1..Len(SearchOrder) :
               /\ NamesRegularFile(SearchOrder[i])
               /\ call.ret.val = Canonicalize(fsys,
                                     Join(SearchOrder[i], call.args[1]))
       ELSE call.ret = [ok |-> TRUE, val |-> <<>>]

\* The reference is a regular file next to the including file and in the
\* quote-only directory d1, and absent from the system directory d2: the
\* system include is not found.
C8_Witness ==
    /\ call.fn = "resolve_system"
    /\ fsys[P("cur", "x")] = RegularFile
    /\ fsys[P("d1", "x")] = RegularFile
    /\ fsys[P("d2", "x")] = Absent
    /\ opts = <<Arg("dir-quote", "d1"), Arg("dir-system", "d2")>>
    /\ call.ret = [ok |-> TRUE, val |-> <<>>]

\* The candidate of directory d is a directory, links followed.
NamesDirectory(d) == IsDir(fsys, Join(d, call.args[1]))

\* C9: resolve never returns a directory; a candidate that is a directory
\* does not end the search; and when no candidate is a regular file the
\* result is Ok(None), not an error.
C9_DirectoriesSkipped ==
    call.fn \in ResolverCalls =>
       /\ call.ret.ok
       /\ call.ret.val # <<>> => EntryAt(fsys, call.ret.val[1]).kind = "file"
       /\ (\E i \in 1..Len(SearchOrder) :
              /\ NamesRegularFile(SearchOrder[i])
              /\ \A j \in 1..(i - 1) : NamesDirectory(SearchOrder[j]))
          => call.ret.val # <<>>
       /\ (\A i \in 1..Len(SearchOrder) : ~NamesRegularFile(SearchOrder[i]))
          => call.ret.val = <<>>

\* The first candidate is a directory, the second a link to a directory,
\* the third a regular file: the third is returned.
C9_Witness ==
    /\ call.fn = "resolve_quote"
    /\ fsys[P("cur", "x")] = Directory
    /\ fsys[P("d1", "x")] = SymLink(P("t", "d"))
    /\ fsys[P("d2", "x")] = RegularFile
    /\ opts = <<Arg("dir", "d1"), Arg("dir-quote", "d2")>>
    /\ call.ret.val = <<P("d2", "x")>>

(* ------------------- claims on the policy selection -------------------- *)

\* The value of a policy option on the command line, "" when it is absent.
Given(name) ==
    IF \E i \in 1..Len(opts) : opts[i].name = name
    THEN opts[CHOOSE i \in 1..Len(opts) : opts[i].name = name].value
    ELSE ""

\* C11: the policy for an unresolvable include of a kind is the one of
\* --unresolvable-include when that is given, otherwise the one of the
\* kind's own option, otherwise Ignore; the option of the other kind has
\* no part in it.  An unresolvable include is handled by that policy.
C11_PolicySelection ==
    LET any == Given("unresolvable-include")
        quote == Given("unresolvable-quote-include")
        system == Given("unresolvable-system-include")
        applied == IF last.line.open = "<"
                   THEN (IF any # "" THEN any
                         ELSE IF system # "" THEN system ELSE "Ignore")
                   ELSE (IF any # "" THEN any
                         ELSE IF quote # "" THEN quote ELSE "Ignore")
    IN /\ any # "" =>
             /\ error_handling_opts.unresolvable_quote_include = any
             /\ error_handling_opts.unresolvable_system_include = any
       /\ (any = "" /\ quote # "") =>
             error_handling_opts.unresolvable_quote_include = quote
       /\ (any = "" /\ quote = "") =>
             error_handling_opts.unresolvable_quote_include = "Ignore"
       /\ (any = "" /\ system # "") =>
             error_handling_opts.unresolvable_system_include = system
       /\ (any = "" /\ system = "") =>
             error_handling_opts.unresolvable_system_include = "Ignore"
       /\ Unresolved =>
             /\ (pc = "failed") = (applied = "Error")
             /\ (\E i \in 1..Len(Logged) : Logged[i].level = "warn")
                   = (applied = "Warn")
             /\ applied # "Error" => KeptLine

\* Quote includes warn and system includes fail: an unresolvable quote
\* include is kept with a warning.
C11_Witness ==
    /\ Unresolved
    /\ last.line = QuoteInclude("d")
    /\ Given("unresolvable-include") = ""
    /\ Given("unresolvable-quote-include") = "Warn"
    /\ Given("unresolvable-system-include") = "Error"
    /\ pc = "running"
    /\ Logged # <<>> /\ Logged[1].level = "warn"

\* C12: no pragma-once line is ever in the output, in either program and
\* under every setting, and the step that reads one writes nothing while
\* the line is counted in the line number of the file it was read from.
C12_PragmaOnceDropped ==
    [][/\ \A i \in DOMAIN writer' :
             writer'[i].tag = "line" => writer'[i].line # PragmaOnceLine
       /\ (last'.op = "line" /\ last'.line = PragmaOnceLine) =>
             /\ writer' = writer
             /\ IF frames # <<>>
                THEN frames' = WithTop(frames,
                                  Frame(frames[Len(frames)].line_num + 1,
                                        frames[Len(frames)].deferred_blank_lines,
                                        frames[Len(frames)].blank_run,
                                        frames[Len(frames)].nested_wrote))
                ELSE /\ tail_idx' = tail_idx
                     /\ files' = [files EXCEPT ![tail_idx + 1].line_num = @ + 1]]_vars

\* A pragma-once line was read in a file that is being inlined, after
\* something was written, by the one program or the other.
C12_Witness ==
    /\ last.op = "line"
    /\ last.line = PragmaOnceLine
    /\ writer # <<>>
    /\ \/ stack # <<>>
       \/ /\ frames = <<>>
          /\ last.tail # EMPTY_STACK_IDX
          /\ FileAt(files, last.tail).included_by # EMPTY_STACK_IDX

\* The position of the copied line written before position i, 0 if none.
RECURSIVE PreviousContent(_, _)
PreviousContent(w, i) ==
    IF i <= 1 THEN 0
    ELSE IF w[i - 1].tag = "line" THEN i - 1
    ELSE PreviousContent(w, i - 1)

\* The copied line at position i of w does not continue the copied line
\* written before it: there is none, or it is of another file, or its
\* number is not the next one.
Discontinuity(w, i) ==
    LET j == PreviousContent(w, i)
    IN \/ j = 0
       \/ w[j].path # w[i].path
       \/ w[j].num + 1 # w[i].num

\* C13: with line directives enabled in process.rs, every copied line
\* that does not continue the copied line written before it, the first of
\* the run included, is immediately preceded by the directive naming its
\* 1-based number and the canonical path of its file; a copied line carries
\* the number of lines read so far from the file that is being read.
C13_DirectiveAtDiscontinuity ==
    expected_line # <<>> =>
        /\ \A i \in DOMAIN writer :
              (writer[i].tag = "line" /\ Discontinuity(writer, i)) =>
                 /\ i > 1
                 /\ writer[i - 1] = Directive(writer[i].num, writer[i].path)
        /\ (last.op = "line" /\ Written # <<>>) =>
              /\ writer[Len(writer)].tag = "line"
              /\ writer[Len(writer)].num = last.nread + 1
              /\ writer[Len(writer)].path =
                    FileAt(files, last.tail).canonical_path

\* With line directives, a line was copied from the root after the
\* return from an inlined file a line of which was copied: each of the two
\* copied lines has its directive.
C13_Witness ==
    /\ expected_line # <<>>
    /\ Len(writer) = 4
    /\ writer[1].tag = "directive"
    /\ writer[3].tag = "directive"
    /\ writer[2].path # writer[4].path
    /\ writer[4].num = 2
    /\ last.op = "line"

\* The record at the end of the included_by chain from idx: the root in
\* whose process() call the file of record idx was entered.
RECURSIVE RootOf(_, _)
RootOf(idx, fuel) ==
    IF fuel = 0 \/ FileAt(files, idx).included_by = EMPTY_STACK_IDX THEN idx
    ELSE RootOf(FileAt(files, idx).included_by, fuel - 1)

\* The position among the process() calls of the first one given the
\* root in whose call the file with this identity was entered.
RootPosition(path) ==
    LET root == FileAt(files, RootOf(known_files[path], Len(files))).canonical_path
    IN CHOOSE k \in DOMAIN roots :
          /\ roots[k] = <<root>>
          /\ \A m \in 1..(k - 1) : roots[m] # <<root>>

\* The copied lines c are in the order of the process() calls in which
\* their files were entered.
OrderedByRoot(c) ==
    \A i \in 1..(Len(c) - 1) :
        RootPosition(c[i].path) <= RootPosition(c[i + 1].path)

\* C14: successive process() calls share the known files. A process()
\* call for a root whose identity is already Done writes nothing, logs
\* nothing, enters no file and returns, so the file is not read again;
\* and the copied lines are in the order of the process() calls in which
\* their files were entered.
C14_RootsShareKnownFiles ==
    /\ (last.op = "process" /\ last.before = "Done") =>
          /\ Written = <<>>
          /\ Logged = <<>>
          /\ NothingEntered
          /\ tail_idx = EMPTY_STACK_IDX
          /\ pc = "idle"
          /\ error = <<>>
    /\ OrderedByRoot(ContentOf(writer))

\* process() was called for a root that an earlier root had inlined, a
\* line of it having been copied then.
C14_Witness ==
    /\ last.op = "process"
    /\ last.before = "Done"
    /\ Len(roots) = 2
    /\ roots[1] # roots[2]
    /\ \E i \in DOMAIN writer : writer[i].tag = "line" /\ <<writer[i].path>> = roots[2]

\* The step read an include line of the quote or the system form that
\* resolved to a file which the globs of that kind's filter do not let
\* inline.
FilteredInclude(step) ==
    /\ step.op = "line"
    /\ step.resolved # <<>>
    /\ ~check_should_inline(step.resolved[1],
                            IF step.line.open = "<"
                            THEN inlining_filter.system_infos
                            ELSE inlining_filter.quote_infos)

\* C16: the step that reads an include which resolves but which the
\* filter of its kind does not let inline copies the include line
\* verbatim, enters no file and leaves the known files as they were: the
\* records, their states, the map of identities and the tail; only the
\* line number of the file being read advances.
C16_FilteredIncludeKept ==
    [][FilteredInclude(last') =>
          /\ ContentOf(SubSeq(writer', Len(writer) + 1, Len(writer'))) =
                <<Copied(last'.line, FileAt(files, tail_idx).line_num + 1,
                         FileAt(files, tail_idx).canonical_path)>>
          /\ SubSeq(writer', 1, Len(writer)) = writer
          /\ files' = [files EXCEPT ![tail_idx + 1].line_num = @ + 1]
          /\ known_files' = known_files
          /\ tail_idx' = tail_idx
          /\ log' = log
          /\ pc' = pc]_vars

\* An include that resolved to a file not yet seen was kept because of
\* the filter, in a file that is itself being inlined.
C16_Witness ==
    /\ FilteredInclude(last)
    /\ ~last.approved
    /\ last.before = "NotSeen"
    /\ KeptLine
    /\ FileAt(files, last.tail).included_by # EMPTY_STACK_IDX

\* C17: the program ends with a non-zero exit status when process
\* returned an error (a cyclic include, a file not found, a failure to
\* canonicalize, open or read), and with status 0 only when it did not.
C17_AsStated ==
    pc = "exited" => (exit_status # <<0>> <=> error # <<>>)

\* The last step met a failure of the environment: canonicalize failed on
\* the root, or on the current directory or a candidate of an include, or
\* the file entered could not be opened, or a read from it failed.
EnvironmentFailure ==
    \/ last.op = "process" /\ last.resolved = <<>>
    \/ last.op \in {"resolve_error", "open_error", "read_error"}

\* C18: a failure of the environment makes process() return an error
\* naming it, with nothing written or logged by the step, whatever the
\* three policies are.
C18_EnvironmentFailuresFatal ==
    EnvironmentFailure =>
        /\ pc = "failed"
        /\ error # <<>>
        /\ error[1].what \in {"canonicalize", "open", "read"}
        /\ Written = <<>>
        /\ Logged = <<>>

\* The resolver failed on an include while all three policies are Ignore.
C18_Witness ==
    /\ last.op = "resolve_error"
    /\ error_handling_opts.cyclic_include = "Ignore"
    /\ error_handling_opts.unresolvable_quote_include = "Ignore"
    /\ error_handling_opts.unresolvable_system_include = "Ignore"
    /\ pc = "failed"

\* The process() call of main.rs for the file with this identity has
\* returned Ok: an inlined file is Done, the root's call ended the run.
Finished(path) ==
    \/ path \in DOMAIN known_files /\ known_files[path] = Done
    \/ /\ pc \in {"returned_ok", "exited"}
       /\ error = <<>>
       /\ path = current_file.canonical_path

\* Position i of the writer holds a line of the file with this identity,
\* blank or not as asked.
LineOfFile(i, path, blank) ==
    /\ writer[i].tag = "line"
    /\ writer[i].path = path
    /\ IsBlank(writer[i].line) = blank

\* C19: with blank trimming in main.rs, every blank line that a file has
\* written, once its process() call has returned, has a non-blank line of
\* the same file written before it and one written after it.
C19_AsStated ==
    (frames # <<>> \/ pc \in {"returned_ok", "exited"}) /\ opts.trim_blank =>
        \A i \in DOMAIN writer :
            (LineOfFile(i, writer[i].path, TRUE) /\ Finished(writer[i].path)) =>
                /\ \E j \in 1..(i - 1) : LineOfFile(j, writer[i].path, FALSE)
                /\ \E j \in (i + 1)..Len(writer) :
                      LineOfFile(j, writer[i].path, FALSE)

\* The position of the last non-blank line of the file in w, 0 if none.
RECURSIVE LastNonBlank(_, _, _)
LastNonBlank(w, path, i) ==
    IF i = 0 THEN 0
    ELSE IF w[i].tag = "line" /\ w[i].path = path /\ ~IsBlank(w[i].line) THEN i
    ELSE LastNonBlank(w, path, i - 1)

\* The numbers of the blank lines of the file in w after position k.
BlankNumbersAfter(w, path, k) ==
    LET blanks == SelectSeq(SubSeq(w, k + 1, Len(w)),
                            LAMBDA e : /\ e.tag = "line"
                                       /\ e.path = path
                                       /\ IsBlank(e.line))
    IN [i \in DOMAIN blanks |-> blanks[i].num]

\* C20: with blank trimming in main.rs, when a file that has written a
\* non-blank line writes its next non-blank line, the blank lines of the
\* file written between the two are exactly the blank lines read from the
\* file between the two, each once and in order, whatever pragma-once
\* lines and includes were read between them; the line itself is written
\* last, under its number.
C20_BlankRunsExact ==
    [][(/\ frames # <<>>
        /\ opts.trim_blank
        /\ current_file.has_written
        /\ last'.op = "line"
        /\ ~IsBlank(last'.line)
        /\ Len(frames') = Len(frames)
        /\ writer' # writer) =>
          LET path == current_file.canonical_path
              top == frames[Len(frames)]
          IN /\ LastNonBlank(writer, path, Len(writer)) > 0
             /\ writer'[Len(writer')] =
                   Copied(last'.line, top.line_num + 1, path)
             /\ BlankNumbersAfter(SubSeq(writer', 1, Len(writer') - 1), path,
                                  LastNonBlank(writer, path, Len(writer)))
                   = top.blank_run
             /\ SubSeq(writer', 1, Len(writer)) = writer]_vars

\* With blank trimming, a file wrote a non-blank line, a blank line and
\* a non-blank line, a line that is not written (a pragma-once line or an
\* include) lying between the two non-blank lines in the file.
C20_Witness ==
    /\ frames # <<>>
    /\ opts.trim_blank
    /\ \E i, j, k \in DOMAIN writer :
          /\ i < j /\ j < k
          /\ LineOfFile(i, writer[k].path, FALSE)
          /\ LineOfFile(j, writer[k].path, TRUE)
          /\ LineOfFile(k, writer[k].path, FALSE)
          /\ writer[k].num >= writer[i].num + 3
          /\ writer[j].num > writer[i].num
          /\ writer[j].num < writer[k].num

\* An expansion: the lines it yields and the identities Done after it.
Expansion(out, done) == [out |-> out, done |-> done]

\* The expansion here, followed by the expansion rest of what comes after.
Then(here, rest) == Expansion(here \o rest.out, rest.done)

\* The reference expansion of the lines n.. of the file with identity
\* path, stk being the identities on the include stack (path among them)
\* and done the identities inlined in full before. A pragma-once line is
\* omitted. An include of the quote or system form that resolves to a file
\* the filter of its kind lets inline is replaced by the expansion of
\* that file when the file is neither on the stack nor done, is omitted
\* when the file is done, and stays when the file is on the stack. Every
\* other line stays, under its number.
RECURSIVE ExpandFrom(_, _, _, _)
ExpandInclude(path, n, stk, done, target) ==
    Then(ExpandFrom(target, 1, stk \cup {target}, done).out,
         ExpandFrom(path, n + 1, stk,
                    ExpandFrom(target, 1, stk \cup {target}, done).done
                       \cup {target}))

ExpandFrom(path, n, stk, done) ==
    IF n > Len(contents[path]) THEN Expansion(<<>>, done)
    ELSE LET line == contents[path][n]
             is_quote == line.open = "\"" /\ line.close = "\""
             is_system == line.open = "<" /\ line.close = ">"
             found == IF line.kind # "include" \/ (~is_quote /\ ~is_system)
                      THEN <<>>
                      ELSE IF is_quote
                      THEN resolve_quote(fsys, resolver, line.name, Parent(path)).val
                      ELSE resolve_system(fsys, resolver, line.name).val
             approved == /\ found # <<>>
                         /\ should_inline(inlining_filter, found[1], is_system)
         IN IF line.kind = "pragma"
            THEN ExpandFrom(path, n + 1, stk, done)
            ELSE IF approved /\ found[1] \in done
            THEN ExpandFrom(path, n + 1, stk, done)
            ELSE IF approved /\ found[1] \notin stk
            THEN ExpandInclude(path, n, stk, done, found[1])
            ELSE Then(<<Copied(line, n, path)>>,
                      ExpandFrom(path, n + 1, stk, done))

\* The reference expansion of the roots k.. given to process(): a root
\* that is done yields nothing.
RECURSIVE ExpandRoots(_, _)
ExpandRoots(k, done) ==
    IF k > Len(roots) THEN <<>>
    ELSE LET root == roots[k][1] IN
         IF root \in done THEN ExpandRoots(k + 1, done)
         ELSE ExpandFrom(root, 1, {root}, done).out
                 \o ExpandRoots(k + 1,
                                ExpandFrom(root, 1, {root}, done).done \cup {root})

\* C15: without line directives, when every process() call so far has
\* returned Ok, the output is the reference expansion of the roots given.
C15_OutputIsExpansion ==
    (pc = "idle" /\ error = <<>> /\ expected_line = <<>>) =>
        writer = ExpandRoots(1, {})

\* A run ended well in which a line of the root was copied, then a line
\* of a file the root inlined, then a further line of the root.
C15_Witness ==
    /\ pc = "idle"
    /\ error = <<>>
    /\ roots # <<>>
    /\ Len(writer) = 3
    /\ writer[1].path = writer[3].path
    /\ writer[2].path # writer[1].path
    /\ writer[3].num = 3

\* The identity of the file given on the command line of main.rs, once
\* Processor::new has canonicalized it.
MainRoot ==
    IF stack # <<>> THEN stack[1].canonical_path
    ELSE current_file.canonical_path

\* The writer holds a begin or end comment for the file.
HasComment(path) ==
    \E i \in DOMAIN writer :
        writer[i].tag \in {"begin", "end"} /\ writer[i].path = path

\* The writer holds a line of the file.
HasLine(path) ==
    \E i \in DOMAIN writer : writer[i].tag = "line" /\ writer[i].path = path

\* C21: in main.rs, whatever comment templates are configured, the
\* root file has no begin or end comment in the output, and a file has a
\* comment in the output only if a line of it is in the output.
C21_CommentsOnlyForWritingNestedFiles ==
    current_file # <<>> =>
        /\ ~HasComment(MainRoot)
        /\ \A i \in DOMAIN writer :
              writer[i].tag \in {"begin", "end"} => HasLine(writer[i].path)

\* With both templates configured, the root has written a line and a
\* nested file has ended without writing one.
C21_Witness ==
    /\ current_file # <<>>
    /\ opts.file_begin_comment # <<>>
    /\ opts.file_end_comment # <<>>
    /\ HasLine(MainRoot)
    /\ \E p \in DOMAIN known_files :
          known_files[p] = Done /\ ~HasLine(p) /\ ~HasComment(p)

\* The line matches the include regex, but its reference has neither the
\* quote form nor the system form.
OddInclude(line) ==
    /\ line.kind = "include"
    /\ ~(line.open = "\"" /\ line.close = "\"")
    /\ ~(line.open = "<" /\ line.close = ">")

\* C22: the step that reads an include-like line whose reference has
\* neither delimiter form appends the line as read to the output (after
\* its directive, if any), resolves nothing, logs nothing, does not fail
\* under any policy, and leaves files, known_files and tail_idx as they
\* were but for the line number of the file being read.
C22_OddIncludeCopied ==
    [][(last'.op = "line" /\ OddInclude(last'.line)) =>
          /\ ContentOf(SubSeq(writer', Len(writer) + 1, Len(writer'))) =
                <<Copied(last'.line, FileAt(files, tail_idx).line_num + 1,
                         FileAt(files, tail_idx).canonical_path)>>
          /\ SubSeq(writer', 1, Len(writer)) = writer
          /\ last'.resolved = <<>>
          /\ files' = [files EXCEPT ![tail_idx + 1].line_num = @ + 1]
          /\ known_files' = known_files
          /\ tail_idx' = tail_idx
          /\ log' = log
          /\ pc' = pc
          /\ error' = error]_vars

\* A reference opened with a double quote and closed with '>' was read
\* in an inlined file while the unresolvable policies are Error, and the
\* line was copied.
C22_Witness ==
    /\ last.op = "line"
    /\ OddInclude(last.line)
    /\ last.line.open = "\""
    /\ last.line.close = ">"
    /\ error_handling_opts.unresolvable_quote_include = "Error"
    /\ error_handling_opts.unresolvable_system_include = "Error"
    /\ KeptLine
    /\ pc = "running"
    /\ FileAt(files, last.tail).included_by # EMPTY_STACK_IDX

(* ------------------------- the states of a file ------------------------ *)

\* The place of a state in the order NotSeen, InStack, Done.
Rank(state) == IF state = "NotSeen" THEN 0 ELSE IF state = "InStack" THEN 1 ELSE 2

\* C23: every identity goes through NotSeen, InStack, Done in that order and
\* takes each transition at most once: in every step the state of an
\* identity stays or moves on by one place (so Done never becomes InStack,
\* NotSeen never becomes Done at once, and a known identity stays known, with
\* the record it has), and when a process() call returns Ok every known
\* record is Done.
C23_FileStatesInOrder ==
    [][/\ \A path \in DOMAIN known_files \cup DOMAIN known_files' :
             LET old == Rank(StateOf(files, known_files, path))
                 new == Rank(StateOf(files', known_files', path))
             IN /\ new \in {old, old + 1}
                /\ new <= 2
                /\ path \in DOMAIN known_files =>
                      /\ path \in DOMAIN known_files'
                      /\ known_files'[path] = known_files[path]
       /\ (pc \in {"idle", "running"} /\ pc' = "idle") =>
             \A path \in DOMAIN known_files' :
                StateOf(files', known_files', path) = "Done"]_vars

\* The second process() call has returned Ok at the end of its root, after
\* an include of a file that was done was met and another file was inlined.
C23_Witness ==
    /\ pc = "idle"
    /\ error = <<>>
    /\ last.op = "eof"
    /\ Len(roots) = 2
    /\ Len(files) >= 3
    /\ \A path \in DOMAIN known_files : StateOf(files, known_files, path) = "Done"

(* ----------------------- known_files and files ------------------------- *)

\* known_files is a one-to-one map from the known paths onto the indices of
\* fl, each record carrying the path that leads to it, and each record is
\* included by none (the sentinel) or by a record before it.
KnownFilesConsistent(fl, kf) ==
    /\ \A path \in DOMAIN kf :
          /\ kf[path] \in 0..(Len(fl) - 1)
          /\ FileAt(fl, kf[path]).canonical_path = path
    /\ \A i \in 0..(Len(fl) - 1) :
          /\ Cardinality({path \in DOMAIN kf : kf[path] = i}) = 1
          /\ \/ FileAt(fl, i).included_by = EMPTY_STACK_IDX
             \/ FileAt(fl, i).included_by < i

\* C24: after any sequence of operations known_files and files are
\* consistent (each known path has an index of its own below files.len(),
\* whose record carries that path; every record has exactly one path;
\* included_by is the sentinel or a smaller index), and no step removes a
\* record or changes the identity or the includer of a record.
C24_KnownFilesConsistent ==
    [][/\ KnownFilesConsistent(files', known_files')
       /\ Len(files') >= Len(files)
       /\ \A i \in 1..Len(files) :
             /\ files'[i].canonical_path = files[i].canonical_path
             /\ files'[i].included_by = files[i].included_by]_vars

\* Three records: a root, a file it includes, and a second root.
C24_Witness ==
    /\ Len(files) = 3
    /\ files[2].included_by = 0
    /\ files[3].included_by = EMPTY_STACK_IDX
    /\ Cardinality(DOMAIN known_files) = 3

(* -------------------------- the include stack -------------------------- *)

\* The indices met from idx along included_by, idx first, in at most fuel
\* links; ends tells whether the sentinel was met.
RECURSIVE AncestorChain(_, _, _)
AncestorChain(fl, idx, fuel) ==
    IF idx = EMPTY_STACK_IDX THEN [ends |-> TRUE, chain |-> <<>>]
    ELSE IF fuel = 0 \/ idx >= Len(fl) THEN [ends |-> FALSE, chain |-> <<>>]
    ELSE LET rest == AncestorChain(fl, FileAt(fl, idx).included_by, fuel - 1)
         IN [ends |-> rest.ends, chain |-> <<idx>> \o rest.chain]

\* The chain from the tail.
Stack == AncestorChain(files, tail_idx, Len(files))

\* C25: at every point of a traversal the records with in_stack = true are
\* exactly those met from tail_idx along included_by, and that chain holds
\* no record twice and ends at the sentinel.
C25_InStackIsAncestorChain ==
    /\ Stack.ends
    /\ \A j, k \in DOMAIN Stack.chain : Stack.chain[j] = Stack.chain[k] => j = k
    /\ {Stack.chain[k] : k \in DOMAIN Stack.chain} =
          {i \in 0..(Len(files) - 1) : FileAt(files, i).in_stack}

\* Two files on the stack after a file included by the tail has ended.
C25_Witness ==
    /\ pc = "running"
    /\ last.op = "eof"
    /\ Len(Stack.chain) = 2
    /\ \E i \in 0..(Len(files) - 1) : ~FileAt(files, i).in_stack

(* --------------------------- include cycles ---------------------------- *)

\* The last step read an approved include of a file on the include stack.
CyclicStep ==
    /\ last.op = "line"
    /\ last.resolved # <<>>
    /\ last.approved
    /\ last.before = "InStack"

\* The cycle the last step reported: in the error it returned, or in the
\* message it logged.
ReportedCycle ==
    IF pc = "failed" THEN error[1].cycle ELSE Logged[1].cycle

\* The last step reported a cycle, in an error or in one message.
CycleReported ==
    IF pc = "failed"
    THEN error # <<>> /\ error[1].what = "cyclic"
    ELSE Len(Logged) = 1 /\ Logged[1].what = "cyclic"

\* The record of a listed path.
RecordOf(path) == FileAt(files, known_files[path])

\* C26: the cycle reported when an include resolves to a record R on the
\* include stack is the ancestor chain from the tail up to and including R:
\* it starts with the tail, each entry is followed by the file that
\* includes it, R comes last, and no file is listed twice (so a file that
\* includes itself is listed alone, and no file above R is listed).
C26_CycleIsChainUpToR ==
    CyclicStep =>
       /\ CycleReported
       /\ LET chain == AncestorChain(files, last.tail, Len(files)).chain
              n == CHOOSE k \in DOMAIN chain :
                      FileAt(files, chain[k]).canonical_path = last.resolved[1]
          IN ReportedCycle =
                [k \in 1..n |-> FileAt(files, chain[k]).canonical_path]
       /\ \A j, k \in DOMAIN ReportedCycle :
             ReportedCycle[j] = ReportedCycle[k] => j = k
       /\ (last.resolved[1] = FileAt(files, last.tail).canonical_path) =>
             ReportedCycle = <<last.resolved[1]>>

\* A file included by the root includes itself: the root is not listed.
C26_Witness ==
    /\ CyclicStep
    /\ FileAt(files, last.tail).included_by # EMPTY_STACK_IDX
    /\ last.resolved[1] = FileAt(files, last.tail).canonical_path
    /\ Len(ReportedCycle) = 1

\* C27 as stated: the cycle is listed in traversal order, from the file the
\* cycle leads back to, each file followed by the file it includes, down to
\* the file that holds the re-entrant include.
C27_AsStated ==
    CyclicStep =>
       /\ CycleReported
       /\ ReportedCycle[1] = last.resolved[1]
       /\ ReportedCycle[Len(ReportedCycle)] = FileAt(files, last.tail).canonical_path
       /\ \A k \in 1..(Len(ReportedCycle) - 1) :
             RecordOf(ReportedCycle[k + 1]).included_by = known_files[ReportedCycle[k]]

\* C27: the cycle is listed against the traversal order: the first listed
\* file is the one that holds the re-entrant include, each listed file is
\* followed by the file that includes it, and the last listed file is the
\* one the cycle leads back to (the one entered first).
C27_CycleListedFromTail ==
    CyclicStep =>
       /\ CycleReported
       /\ ReportedCycle[1] = FileAt(files, last.tail).canonical_path
       /\ ReportedCycle[Len(ReportedCycle)] = last.resolved[1]
       /\ \A k \in 1..(Len(ReportedCycle) - 1) :
             RecordOf(ReportedCycle[k]).included_by = known_files[ReportedCycle[k + 1]]

\* A cycle of two files is reported.
C27_Witness ==
    /\ CyclicStep
    /\ CycleReported
    /\ Len(ReportedCycle) = 2
    /\ ReportedCycle[1] # ReportedCycle[2]

(* ------------------------------ failures ------------------------------- *)

\* C28: the step that returns an Error-class failure (policy Error, an i/o
\* failure, a path that cannot be canonicalized) writes no line and no
\* directive and enters no file, and neither does any step after it: the
\* error goes up through process_recursively to the caller of process().
\* Every step leaves what was written before in the output, unchanged.
C28_FailureWritesNothing ==
    [][/\ pc' = "failed" =>
             /\ error' # <<>>
             /\ writer' = writer
             /\ expected_line' = expected_line
             /\ Len(files') = Len(files)
             /\ known_files' = known_files
             /\ tail_idx' = tail_idx
       /\ Len(writer') >= Len(writer)
       /\ SubSeq(writer', 1, Len(writer)) = writer]_vars

\* An include under policy Error fails after lines were written.
C28_Witness ==
    /\ pc = "failed"
    /\ last.op = "line"
    /\ IsIncludeMatch(last.line)
    /\ Len(writer) >= 1

(* ------------------------- Warn against Ignore ------------------------- *)

\* The second run has got as far as the first one: its process() calls,
\* on the same source files, have returned.
SecondRunDone ==
    /\ call.fn = "run"
    /\ pc \in {"idle", "failed"}
    /\ roots = call.ret[1].roots

\* C29: on the same files, source files, search directories, filters and
\* line-directive setting, the run under Warn and the run under Ignore of
\* one policy (the cyclic one, or one of the two unresolvable ones, the
\* other policies being the same) write the same output, end alike (Ok or
\* Err) and leave the same file records; only the log may differ.
C29_WarnAndIgnoreAgree ==
    SecondRunDone =>
       /\ writer = call.ret[1].writer
       /\ pc = call.ret[1].pc
       /\ files = call.ret[1].files
       /\ known_files = call.ret[1].known_files

\* Both runs ended Ok after the policy was applied: the first run logged a
\* warning, the second run none, and a line was written.
C29_Witness ==
    /\ SecondRunDone
    /\ pc = "idle"
    /\ writer # <<>>
    /\ \E k \in DOMAIN call.ret[1].log : call.ret[1].log[k].level = "warn"
    /\ \A k \in DOMAIN log : log[k].level # "warn"
    /\ \E k \in DOMAIN log : log[k].level = "debug" /\ log[k].what = "cyclic"

(* --------------------------- nested files ------------------------------ *)

\* C30: while a nested file is processed the records of its ancestors (of
\* every record but the tail, indeed) keep their line counter, state and
\* parent link; a step that reads a line reads the line after the last one
\* read from the tail file and counts it; the end of a file comes after its
\* last line, marks the tail done and gives the turn back to its includer,
\* whose next read is therefore the line after the include.
C30_AncestorsUntouched ==
    [][/\ \A i \in 0..(Len(files) - 1) :
             i # tail_idx => FileAt(files', i) = FileAt(files, i)
       /\ last'.op = "line" =>
             LET f == FileAt(files, tail_idx) IN
             /\ last'.line = contents[f.canonical_path][f.line_num + 1]
             /\ FileAt(files', tail_idx) = [f EXCEPT !.line_num = f.line_num + 1]
             /\ tail_idx' \in {tail_idx} \cup (Len(files)..(Len(files') - 1))
       /\ last'.op = "eof" =>
             LET f == FileAt(files, tail_idx) IN
             /\ f.line_num = Len(contents[f.canonical_path])
             /\ FileAt(files', tail_idx) = [f EXCEPT !.in_stack = FALSE]
             /\ tail_idx' = f.included_by
             /\ Len(files') = Len(files)]_vars

\* A nested file has read a line after a file it included has ended.
C30_Witness ==
    /\ last.op = "line"
    /\ last.nread >= 1
    /\ FileAt(files, last.tail).included_by # EMPTY_STACK_IDX
    /\ \E i \in 0..(Len(files) - 1) :
          /\ FileAt(files, i).included_by = last.tail
          /\ ~FileAt(files, i).in_stack

(* ------------ blank lines after a nested file (main.rs) ---------------- *)

\* With blank trimming, this step writes a non-blank line of the file that
\* process() is reading.
WritesNonBlank ==
    /\ frames # <<>>
    /\ opts.trim_blank
    /\ last'.op = "line"
    /\ ~IsBlank(last'.line)
    /\ Len(frames') = Len(frames)
    /\ writer' # writer

\* The numbers of the blank lines the call has deferred.
DeferredNumbers ==
    LET d == frames[Len(frames)].deferred_blank_lines
    IN [i \in DOMAIN d |-> d[i][2]]

\* The numbers of the blank lines of the current file that this step writes.
BlankNumbersWritten ==
    BlankNumbersAfter(writer', current_file.canonical_path, Len(writer))

\* C31 as stated: once a file inlined from P has written a line, the blank
\* lines of P read after it are written, in full count, before P's next
\* non-blank line, even if P has written no line of its own.
C31_AsStated ==
    [][(WritesNonBlank /\ frames[Len(frames)].nested_wrote) =>
          BlankNumbersWritten = DeferredNumbers]_vars

\* C31: the output of a nested file does not end the leading-trim phase of
\* the file P that inlined it: the end of the nested file leaves P's
\* has_written as it was, and when P writes its next non-blank line the
\* blank lines it has deferred are written, in full count, only if a line
\* of P is in the output already; if P has written no line of its own they
\* are dropped, whether or not a file inlined from P has written.
C31_NestedOutputKeepsTrimPhase ==
    [][/\ WritesNonBlank =>
             BlankNumbersWritten =
                IF HasLine(current_file.canonical_path)
                THEN DeferredNumbers ELSE <<>>
       /\ (last'.op = "eof" /\ stack # <<>>) =>
             current_file' = stack[Len(stack)]]_vars

\* With blank trimming, a file that has written no line has read a blank
\* line after a file it inlined wrote a line and ended.
C31_Witness ==
    /\ frames # <<>>
    /\ opts.trim_blank
    /\ ~current_file.has_written
    /\ frames[Len(frames)].nested_wrote
    /\ last.op = "line"
    /\ IsBlank(last.line)
    /\ Len(frames[Len(frames)].deferred_blank_lines) = 1
    /\ stack # <<>>

(* ---------------------- line directives (main.rs) ---------------------- *)

\* C32: in main.rs with line directives enabled, every written line that
\* follows a written line of another file, or a written line of the same
\* file whose number is not the one before its own, is immediately preceded
\* by the directive naming its number and its file.
C32_AsStated ==
    (current_file # <<>> /\ opts.line_directives) =>
        \A i \in DOMAIN writer :
            (/\ writer[i].tag = "line"
             /\ PreviousContent(writer, i) > 0
             /\ Discontinuity(writer, i)) =>
                writer[i - 1] = Directive(writer[i].num, writer[i].path)

(* ------------------ the filter and the known files --------------------- *)

\* C33: an include whose target the filter of its kind excludes is kept
\* verbatim whatever the state of the target, Done and InStack included:
\* the run goes on, no cycle is reported, nothing is logged, no file is
\* entered and the target keeps its state; so a target that is not yet
\* known stays unknown, and a later include of the other kind that the
\* filter approves enters it.
C33_FilterBeforeKnownFiles ==
    /\ FilteredInclude(last) =>
          /\ ~last.approved
          /\ KeptLine
          /\ NothingEntered
          /\ pc = "running"
          /\ error = <<>>
          /\ Logged = <<>>
          /\ StateOf(files, known_files, last.resolved[1]) = last.before
    /\ (ApprovedInclude /\ last.before = "NotSeen") =>
          /\ pc = "running"
          /\ Len(files) = last.nfiles + 1
          /\ tail_idx = known_files[last.resolved[1]]
          /\ FileAt(files, tail_idx).included_by = last.tail
          /\ Written = <<>>

\* A file on the stack holds an include of itself of the kind whose
\* filter excludes it: the line is kept under the cyclic policy Error.
C33_Witness ==
    /\ FilteredInclude(last)
    /\ last.before = "InStack"
    /\ error_handling_opts.cyclic_include = "Error"
    /\ KeptLine
    /\ pc = "running"

\* The same with a target that is done.
C33_DoneCase ==
    /\ FilteredInclude(last)
    /\ last.before = "Done"
    /\ KeptLine

\* A file whose quote include was kept is entered through a system include.
C33_OtherKindCase ==
    /\ ApprovedInclude
    /\ last.before = "NotSeen"
    /\ last.line.open = "<"
    /\ \E i \in DOMAIN writer :
          /\ writer[i].tag = "line"
          /\ writer[i].line = QuoteInclude(last.line.name)

(* -------------------- directives only when needed ---------------------- *)

\* C34: in process.rs every directive in the output is followed at once by
\* the copied line it names (so no two directives follow each other), and
\* that line does not continue the copied line written before it: a line
\* that is the next line of the same file gets no directive.  Without
\* line directives the output holds no directive at all.
C34_DirectiveOnlyWhenNeeded ==
    frames = <<>> =>
        \A i \in DOMAIN writer :
            writer[i].tag = "directive" =>
                /\ expected_line # <<>>
                /\ i < Len(writer)
                /\ writer[i + 1].tag = "line"
                /\ writer[i] = Directive(writer[i + 1].num, writer[i + 1].path)
                /\ Discontinuity(writer, i + 1)

\* With line directives, two lines of a file were copied one after the
\* other: the first has its directive, the second has none.
C34_Witness ==
    /\ frames = <<>>
    /\ expected_line # <<>>
    /\ Len(writer) = 3
    /\ writer[1].tag = "directive"
    /\ writer[2].tag = "line"
    /\ writer[3].tag = "line"
    /\ writer[3].path = writer[2].path
    /\ writer[3].num = writer[2].num + 1

(* --------------------- where a directive starts ------------------------ *)

\* C35: with line directives in process.rs, what is written just before a
\* directive is nothing or ends with a newline: an earlier directive
\* (written with its newline) or a copied line that has one.
C35_AsStated ==
    expected_line # <<>> =>
        \A i \in DOMAIN writer :
            (writer[i].tag = "directive" /\ i > 1) =>
                \/ writer[i - 1].tag = "directive"
                \/ EndsWithNewline(writer[i - 1].line)

(* ------------------- begin and end comments (main.rs) ------------------ *)

\* The positions of the comments of this kind for the file.
CommentsOf(tag, path) ==
    {i \in DOMAIN writer : writer[i].tag = tag /\ writer[i].path = path}

\* The position of the one comment of this kind for the file.
CommentOf(tag, path) == CHOOSE i \in CommentsOf(tag, path) : TRUE

\* The nested files whose process() call has returned and that wrote a line.
WritingNestedFiles ==
    {p \in DOMAIN known_files : known_files[p] = Done /\ HasLine(p)}

\* C36: with both comment templates in main.rs, every nested file that
\* has ended and has written a line has exactly one begin comment and
\* exactly one end comment in the output, with the begin comment first and
\* all lines of the file between the two; and the pairs of two such files
\* lie one inside the other or one after the other.  In a successful run
\* every nested file has ended.
C36_CommentsBracketFiles ==
    (current_file # <<>> /\ opts.file_begin_comment # <<>>
                         /\ opts.file_end_comment # <<>>) =>
        /\ \A p \in WritingNestedFiles :
              /\ Cardinality(CommentsOf("begin", p)) = 1
              /\ Cardinality(CommentsOf("end", p)) = 1
              /\ \A i \in DOMAIN writer :
                    (writer[i].path = p /\ writer[i].tag \in {"line", "directive"}) =>
                       CommentOf("begin", p) < i /\ i < CommentOf("end", p)
        /\ \A p, q \in WritingNestedFiles :
              p # q =>
                 LET bp == CommentOf("begin", p)
                     ep == CommentOf("end", p)
                     bq == CommentOf("begin", q)
                     eq == CommentOf("end", q)
                 IN \/ ep < bq
                    \/ eq < bp
                    \/ bp < bq /\ eq < ep
                    \/ bq < bp /\ ep < eq
        /\ (pc \in {"returned_ok", "exited"} /\ error = <<>>) =>
              \A p \in DOMAIN known_files :
                 p = MainRoot \/ known_files[p] = Done

\* A successful run in which a nested file wrote a line and then inlined a
\* file that wrote a line: one pair of comments inside the other.
C36_Witness ==
    /\ pc = "returned_ok"
    /\ error = <<>>
    /\ opts.file_begin_comment # <<>>
    /\ opts.file_end_comment # <<>>
    /\ Len(writer) = 6
    /\ [i \in 1..6 |-> writer[i].tag] =
          <<"begin", "line", "begin", "line", "end", "end">>
    /\ writer[1].path = writer[6].path
    /\ writer[3].path = writer[5].path
    /\ writer[1].path # writer[3].path

(* ------------------- the assertions of process() ----------------------- *)

\* The root of the process() call under way, or of the last one.
CurrentRoot == roots[Len(roots)]

\* The last step was the end of the file process() was called with: its
\* process_recursively call returns to process().
RootEnded ==
    /\ last.op = "eof"
    /\ FileAt(files, last.tail).canonical_path = CurrentRoot[1]

\* C37: neither assertion of process() fails in a run without an error.
\* tail_idx is the sentinel whenever process() is entered; it is the
\* sentinel whenever no call is under way, so also after a root that was
\* already known and took no step; and the call of process_recursively
\* that returns to process(), the one for the root's record, is exactly
\* the one that leaves tail_idx at the sentinel.
C37_ProcessAssertionsHold ==
    /\ last.op = "process" => last.tail = EMPTY_STACK_IDX /\ pc # "panic"
    /\ pc = "idle" => tail_idx = EMPTY_STACK_IDX
    /\ RootEnded => pc = "idle" /\ tail_idx = EMPTY_STACK_IDX
    /\ (last.op = "eof" /\ ~RootEnded) =>
          pc = "running" /\ tail_idx # EMPTY_STACK_IDX

\* A second root that an earlier root has already included: process()
\* returns without a file being entered.
C37_Witness ==
    /\ Len(roots) = 2
    /\ last.op = "process"
    /\ last.before = "Done"
    /\ Len(files) >= 2
    /\ pc = "idle"
    /\ error = <<>>
    /\ tail_idx = EMPTY_STACK_IDX

(* ------------- the walk of push_to_stack over included_by -------------- *)

\* The last call of push_to_stack, for an include or for a root, found a
\* known record with in_stack = true.
FoundInStack ==
    /\ last.op \in {"line", "process"}
    /\ last.resolved # <<>>
    /\ last.approved
    /\ last.before = "InStack"

\* C38: whenever push_to_stack finds a known record with in_stack = true,
\* tail_idx is not the sentinel (the assert_ne holds) and the record is met
\* from the tail along included_by before the sentinel, so the walk ends
\* without indexing files with the sentinel: no step panics.  A root call
\* of process() never finds such a record.
C38_WalkReachesRecord ==
    /\ pc # "panic"
    /\ FoundInStack =>
          /\ last.op = "line"
          /\ last.tail # EMPTY_STACK_IDX
          /\ LET walk == AncestorChain(files, last.tail, Len(files))
             IN \E k \in DOMAIN walk.chain :
                   walk.chain[k] = known_files[last.resolved[1]]

\* An include of a file on the stack that is not the tail, under a policy
\* that goes on: the walk took a link and the run continues.
C38_Witness ==
    /\ FoundInStack
    /\ known_files[last.resolved[1]] # last.tail
    /\ CycleWalk(files, last.tail, known_files[last.resolved[1]]).cycle # <<>>
    /\ pc = "running"
    /\ tail_idx = last.tail

====
